---- MODULE Spec2Model ----
(***************************************************************************)
(* Bloomora: the session ledger, the Island / Garden progression engine    *)
(* and the reconciliation pass against the remote row store, as a state    *)
(* machine of src/bloomora/app.js.                                         *)
(*                                                                         *)
(* Conventions.  A duration handed to saveSession is a real number of      *)
(* seconds; it is carried here in half seconds (h stands for h/2 s), so    *)
(* that Math.round has something to round.  A session or label identifier  *)
(* is a natural number, 0 standing for the empty string (falsy in the      *)
(* code).  A remote call of a reconciliation pass is in three steps: the   *)
(* pass issues it (the request body is built from the state of that        *)
(* moment), the server handles it at some later moment, and the pass       *)
(* resumes with the answer at a still later one; user operations may run   *)
(* between any two of them.                                                *)
(***************************************************************************)
EXTENDS Integers, Sequences, FiniteSets, TLC

(* ------------------------------ bounds -------------------------------- *)

\* Identifiers saveSession may generate in one behaviour.
MaxIds == 2
\* User operations in one behaviour of the whole program (Spec).
MaxUserOps == 3
\* Clock readings (now()) are drawn from 1..MaxTime.
MaxTime == 2
\* computeLevel is applied to every xp in 0..MaxLevelIn (two full levels).
MaxLevelIn == 36100
\* getTreeStage is applied to every growth in 0..MaxStageIn (past "tree").
MaxStageIn == 7300
\* computeFruitsReady is applied to every growth in 0..MaxFruitGrowth (past
\* the third fruit) and every harvest count in 0..MaxHarvested.
MaxFruitGrowth == 12700
MaxHarvested == 4
\* computeStreak is applied to every ledger of at most MaxStreakSessions
\* sessions that ended on the days 0..MaxDay, read on a day in 0..MaxDay + 1.
MaxStreakSessions == 3
MaxDay == 2

MaxLabels == 2

MaxLabelOps == 5

MaxMergeLen == 2

MaxTimeouts == 5

MaxPassOps == 2

MaxPasses == 2

(* ------------------------- program constants -------------------------- *)

LEVEL_SEC == 5 * 60 * 60

TREE_STAGES ==
  << [id |-> "seed",    minSec |-> 0],
     [id |-> "sprout",  minSec |-> 10 * 60],
     [id |-> "plant",   minSec |-> 30 * 60],
     [id |-> "sapling", minSec |-> 60 * 60],
     [id |-> "tree",    minSec |-> 2 * 60 * 60] >>

FRUIT_RATE_SEC == 30 * 60

\* The keys of defaultState().fruitCollection.
FruitKinds == {"Apple", "Orange", "Cherry", "Mango", "Peach"}

\* defaultState().fruitCollection, also what resetStats writes.
EmptyFruitCollection == [k \in FruitKinds |-> 0]

(* ------------------------------ helpers ------------------------------- *)

\* Variant: the second argument, whatever the first.
Max_second(a, b) == b

Max(a, b) == IF a >= b THEN a ELSE b

Min(a, b) == IF a <= b THEN a ELSE b

clamp(n, a, b) == Max(a, Min(b, n))

\* Variant: Math.floor in place of Math.round.
Round_floor(h) == h \div 2

\* Math.round of h/2 seconds: the nearest integer, a half rounding up.
Round(h) == (h + 1) \div 2

\* Math.floor((into / span) * 100) as IEEE-754 doubles compute it, for
\* 0 <= into <= span.  The quotient is rounded to the nearest double, and for
\* the exact quotients 0.29, 0.57 and 0.58 that double times 100 falls just
\* below the integer (0.29 * 100 = 28.999999999999996), so the floor is one
\* less than the exact percentage; every other quotient is at least 1/span
\* away from the next integer multiple of 1/100 and floors exactly.
FloorPct(into, span) ==
  LET exact == (into * 100) \div span
  IN  IF (into * 100) % span = 0 /\ exact \in {29, 57, 58}
      THEN exact - 1
      ELSE exact

RECURSIVE SumDur(_)
SumDur(ss) ==
  IF ss = << >> THEN 0 ELSE Head(ss).durationSec + SumDur(Tail(ss))

\* Array.prototype.findIndex with the predicate "element.id = id":
\* the first position, 0 when there is none (the code's -1).
RECURSIVE FindIndexFrom(_, _, _)
FindIndexFrom(ss, id, i) ==
  IF i > Len(ss) THEN 0
  ELSE IF ss[i].id = id THEN i
  ELSE FindIndexFrom(ss, id, i + 1)

\* Variant: the last position whenever there is a match.
FindIndex_last(ss, id) ==
  IF FindIndexFrom(ss, id, 1) = 0 THEN 0 ELSE Len(ss)

FindIndex(ss, id) == FindIndexFrom(ss, id, 1)

\* Variant: splice(idx) without a count, which removes the rest as well.
RemoveAt_rest(ss, idx) == SubSeq(ss, 1, idx - 1)

\* Array.prototype.splice(idx, 1): the sequence without position idx.
RemoveAt(ss, idx) ==
  [i \in 1..(Len(ss) - 1) |-> IF i < idx THEN ss[i] ELSE ss[i + 1]]

(* --------------------------- pure functions --------------------------- *)

\* Variant: the level rounded to the nearest in place of floored.
computeLevel_round(totalSec) ==
  LET level == (2 * totalSec + LEVEL_SEC) \div (2 * LEVEL_SEC)
      inLevel == totalSec - level * LEVEL_SEC
  IN  [level |-> level,
       pct |-> clamp(FloorPct(inLevel, LEVEL_SEC), 0, 100),
       remainingSec |-> Max(0, LEVEL_SEC - inLevel),
       inLevel |-> inLevel]

computeLevel(totalSec) ==
  LET level == totalSec \div LEVEL_SEC
      inLevel == totalSec - level * LEVEL_SEC
  IN  [level |-> level,
       pct |-> clamp(FloorPct(inLevel, LEVEL_SEC), 0, 100),
       remainingSec |-> Max(0, LEVEL_SEC - inLevel),
       inLevel |-> inLevel]

\* The loop of getTreeStage: the index of the last stage of the table whose
\* minSec the growth has reached, the first stage when it has reached none.
RECURSIVE StageScan(_, _, _)
StageScan(growthSec, i, cur) ==
  IF i > Len(TREE_STAGES) THEN cur
  ELSE StageScan(growthSec, i + 1,
                 IF growthSec >= TREE_STAGES[i].minSec THEN i ELSE cur)

\* next is 0 for the code's null.
getTreeStage(growthSec) ==
  LET currentIdx == StageScan(growthSec, 1, 1)
      next == IF currentIdx + 1 <= Len(TREE_STAGES) THEN currentIdx + 1 ELSE 0
      span == TREE_STAGES[next].minSec - TREE_STAGES[currentIdx].minSec
      into == growthSec - TREE_STAGES[currentIdx].minSec
  IN  [current |-> currentIdx,
       next |-> next,
       pct |-> IF next # 0 THEN clamp(FloorPct(into, span), 0, 100) ELSE 100,
       toNextSec |-> IF next # 0
                     THEN Max(0, TREE_STAGES[next].minSec - growthSec)
                     ELSE 0]

\* Variant: the difference without Math.max(0, ...).
computeFruitsReady_noClamp(growthSec, harvested) ==
  LET treeMin == TREE_STAGES[5].minSec
      total == (growthSec - treeMin) \div FRUIT_RATE_SEC
  IN  IF growthSec < treeMin THEN 0 ELSE total - harvested

computeFruitsReady(growthSec, harvested) ==
  LET treeMin == TREE_STAGES[5].minSec
      total == (growthSec - treeMin) \div FRUIT_RATE_SEC
  IN  IF growthSec < treeMin THEN 0 ELSE Max(0, total - harvested)

(* ------------------------------ the streak ---------------------------- *)

\* A timestamp counts ticks; a local calendar day is TicksPerDay of them
\* (24 * 3600 * 1000 ms in the code, every day taken to be that long) and
\* its date key is its number.
TicksPerDay == 2

toDateKey(ts) == ts \div TicksPerDay

startOfDay(ts) == toDateKey(ts) * TicksPerDay

\* dayTotals as the first loop of computeStreak builds it: a Map from date
\* key to seconds, here a sequence of <<key, seconds>> in insertion order.
RECURSIVE DayGet(_, _)
DayGet(m, k) ==
  IF m = << >> THEN 0
  ELSE IF Head(m)[1] = k THEN Head(m)[2]
  ELSE DayGet(Tail(m), k)

DaySet(m, k, v) ==
  IF \E i \in 1..Len(m) : m[i][1] = k
  THEN [i \in 1..Len(m) |-> IF m[i][1] = k THEN <<k, v>> ELSE m[i]]
  ELSE Append(m, <<k, v>>)

\* Variant: the day's total is overwritten with the session's duration.
RECURSIVE DayTotals_last(_, _)
DayTotals_last(ss, m) ==
  IF ss = << >> THEN m
  ELSE LET k == toDateKey(Head(ss).endTs)
       IN  DayTotals_last(Tail(ss), DaySet(m, k, Head(ss).durationSec))

RECURSIVE DayTotals(_, _)
DayTotals(ss, m) ==
  IF ss = << >> THEN m
  ELSE LET k == toDateKey(Head(ss).endTs)
       IN  DayTotals(Tail(ss),
                     DaySet(m, k, DayGet(m, k) + Head(ss).durationSec))

\* The "current streak" loop: back from the cursor, a day at a time, while
\* the day is a studied one.
RECURSIVE CurrentWalk(_, _, _)
CurrentWalk(studiedDays, cursor, current) ==
  IF toDateKey(cursor) \notin studiedDays THEN current
  ELSE CurrentWalk(studiedDays, cursor - TicksPerDay, current + 1)

\* Array.from(studiedDays).sort(): the keys in ascending order.
RECURSIVE SortKeys(_)
SortKeys(S) ==
  IF S = {} THEN << >>
  ELSE LET least == CHOOSE x \in S : \A y \in S : x <= y
       IN  << least >> \o SortKeys(S \ {least})

\* The "longest streak" loop over the sorted keys; hasPrev is prevDate
\* being set.
RECURSIVE LongestScan(_, _, _, _, _)
LongestScan(keys, hasPrev, prevDate, run, longest) ==
  IF keys = << >> THEN longest
  ELSE LET d == Head(keys)
           newRun == IF ~hasPrev THEN 1
                     ELSE IF d - prevDate = 1 THEN run + 1 ELSE 1
       IN  LongestScan(Tail(keys), TRUE, d, newRun, Max(longest, newRun))

\* computeStreak(ss) when now() reads nowTs.
computeStreak(ss, nowTs) ==
  LET dayTotals == DayTotals(ss, << >>)
      studiedDays == {dayTotals[i][1] :
                        i \in {j \in 1..Len(dayTotals) : dayTotals[j][2] >= 60}}
  IN  [current |-> CurrentWalk(studiedDays, startOfDay(nowTs), 0),
       longest |-> LongestScan(SortKeys(studiedDays), FALSE, 0, 0, 0),
       todayKey |-> toDateKey(nowTs)]

(* ----------------------------- persistence --------------------------- *)

\* JavaScript values as JSON.parse yields them and as the state holds them.
\* An object is a record of the keys this model follows, a key the object
\* does not hold being JUndefined; NaN is never in a stored text.
JUndefined == [t |-> "undefined"]

JNull == [t |-> "null"]

JNaN == [t |-> "NaN"]

JNum(n) == [t |-> "number", n |-> n]

JStr(s) == [t |-> "string", s |-> s]

JArr(a) == [t |-> "array", a |-> a]

JObj(f) == [t |-> "object", o |-> f]

\* Truthiness, for x || d and for the spread of (x || {}).
Truthy(x) ==
  /\ x.t \notin {"undefined", "null", "NaN"}
  /\ ~(x.t = "number" /\ x.n = 0)
  /\ ~(x.t = "string" /\ x.s = "")

\* x ?? d
Nullish(x, d) == IF x.t \in {"undefined", "null"} THEN d ELSE x

\* Number(x) for the values a blob of this model holds: a string converts
\* when it is a numeral ("12"), the empty string is 0, any other is NaN.
Number(x) ==
  CASE x.t = "number" -> x
    [] x.t = "null" -> JNum(0)
    [] x.t = "string" -> IF x.s = "12" THEN JNum(12)
                         ELSE IF x.s = "" THEN JNum(0) ELSE JNaN
    [] OTHER -> JNaN

\* String(x) for strings, and for null, undefined and NaN, whose texts are
\* their names.
StringOf(x) == IF x.t = "string" THEN x.s ELSE x.t

\* { ...d, ...(x || {}) }: the keys x holds override the defaults.
SpreadOver(d, x) ==
  IF Truthy(x) /\ x.t = "object"
  THEN [k \in DOMAIN d |-> IF x.o[k].t = "undefined" THEN d[k] ELSE x.o[k]]
  ELSE d

\* JSON.parse(JSON.stringify(x)) of a member of the state: NaN is written
\* as null.
Stringify(x) == IF x.t = "NaN" THEN JNull ELSE x

\* The own enumerable keys that ...st copies from a parsed value that is
\* not an object: the indices of a string or of an array.
IndexKeys(st) ==
  IF st.t = "string" THEN 0..(Len(st.s) - 1)
  ELSE IF st.t = "array" THEN 0..(Len(st.a) - 1)
  ELSE {}

\* The members of defaultState() this model follows.
DefaultIsland == [xpSec |-> JNum(0)]

DefaultGarden ==
  [treeType |-> JStr("Apple"), growthSec |-> JNum(0),
   harvestedOnThisTree |-> JNum(0)]

DefaultProfile == [theme |-> JStr("midnight")]

DefaultLabels == [items |-> JArr(<< >>)]

DefaultFruits == [k \in FruitKinds |-> JNum(0)]

DefaultLoaded ==
  [extra |-> {},
   profile |-> DefaultProfile,
   sessions |-> JArr(<< >>),
   island |-> DefaultIsland,
   garden |-> DefaultGarden,
   fruitCollection |-> DefaultFruits,
   labels |-> DefaultLabels]

AllowedThemes == {"midnight", "violet", "emerald", "ocean", "sunset"}

\* What storage.getItem hands to loadState: null for no key, or a text that
\* is empty, is not JSON, or parses to a value.
RawAbsent == [kind |-> "absent"]

RawEmpty == [kind |-> "empty"]

RawGarbage == [kind |-> "garbage"]

RawJson(value) == [kind |-> "json", value |-> value]

Returned(state) == [threw |-> FALSE, state |-> state]

ThrewTypeError == [threw |-> TRUE]

\* A member of the parsed value: undefined on anything but an object.
Member(st, k) == IF st.t = "object" THEN st.o[k] ELSE JUndefined

\* loadState() when storage.getItem returns raw.  Reading st.profile of a
\* parsed null throws a TypeError, which nothing in loadState catches.
loadState(raw) ==
  IF raw.kind \in {"absent", "empty", "garbage"} THEN Returned(DefaultLoaded)
  ELSE
    LET st == raw.value
        profile0 == SpreadOver(DefaultProfile, Member(st, "profile"))
        island0 == SpreadOver(DefaultIsland, Member(st, "island"))
        garden0 == SpreadOver(DefaultGarden, Member(st, "garden"))
        labels0 == SpreadOver(DefaultLabels, Member(st, "labels"))
        theme0 == StringOf(IF Truthy(profile0.theme) THEN profile0.theme
                           ELSE JStr("midnight"))
    IN  IF st.t = "null" THEN ThrewTypeError
        ELSE Returned(
          [extra |-> IF st.t = "object" THEN st.o.extra ELSE IndexKeys(st),
           profile |-> [theme |-> JStr(IF theme0 \in AllowedThemes THEN theme0
                                       ELSE "midnight")],
           sessions |-> IF Member(st, "sessions").t = "array"
                        THEN Member(st, "sessions") ELSE JArr(<< >>),
           island |-> [xpSec |-> Number(Nullish(island0.xpSec, JNum(0)))],
           garden |->
             [treeType |-> garden0.treeType,
              growthSec |-> Number(Nullish(garden0.growthSec, JNum(0))),
              harvestedOnThisTree |->
                Number(Nullish(garden0.harvestedOnThisTree, JNum(0)))],
           fruitCollection |->
             SpreadOver(DefaultFruits, Member(st, "fruitCollection")),
           labels |-> [items |-> IF labels0.items.t = "array"
                                 THEN labels0.items ELSE JArr(<< >>)]])

\* What saveState() writes and storage.getItem returns afterwards:
\* JSON.stringify(state), parsed again.
savedState(state) ==
  RawJson(JObj(
    [extra |-> state.extra,
     profile |-> JObj([theme |-> Stringify(state.profile.theme)]),
     sessions |-> state.sessions,
     island |-> JObj([xpSec |-> Stringify(state.island.xpSec)]),
     garden |-> JObj([k \in DOMAIN state.garden |->
                        Stringify(state.garden[k])]),
     fruitCollection |-> JObj([k \in FruitKinds |->
                                 Stringify(state.fruitCollection[k])]),
     labels |-> JObj([items |-> state.labels.items])]))

(* ------------------------------- state -------------------------------- *)

VARIABLES
  sessions,             \* state.sessions: the ledger, most recent first
  islandXpSec,          \* state.island.xpSec
  gardenGrowthSec,      \* state.garden.growthSec
  treeType,             \* state.garden.treeType
  harvestedOnThisTree,  \* state.garden.harvestedOnThisTree
  fruitCollection,      \* state.fruitCollection
  labels,               \* state.labels.items
  profile,              \* state.profile (the theme stands for its settings)
  sbUser,               \* sb.user is set: a remote identity is signed in
  syncing,              \* sb.syncing
  syncTimer,            \* the pending debounce timer's delay in ms, 0 = none
  syncPc,               \* where the reconciliation pass is suspended
  rpc,                  \* the remote call the pass is waiting for
  forcePushOnce,        \* sb.forcePushOnce
  deletedLabelIds,      \* sb.deletedLabelIds
  remoteProfile,        \* the user's row of table profiles
  remoteLabels,         \* the user's rows of table labels
  remoteSessions,       \* the user's rows of table sessions
  sessionDeletes,       \* session delete requests sent and not yet handled
  labelDeletes,         \* deleteLabel's own remote deletes and their state
  nextId,               \* the next identifier saveSession generates
  opsLeft,              \* user operations still allowed; -1 = any number
  ret,                  \* the last operation, its argument and its result
  fnIn,                 \* the argument a pure function is applied to
  fnOut                 \* its result

ledgerVars == <<sessions, islandXpSec, gardenGrowthSec>>
gardenVars == <<treeType, harvestedOnThisTree, fruitCollection>>
settingVars == <<labels, profile>>
passVars == <<syncing, syncPc, rpc, forcePushOnce, deletedLabelIds>>
remoteVars == <<remoteProfile, remoteLabels, remoteSessions, labelDeletes>>
pureVars == <<fnIn, fnOut>>

vars == <<sessions, islandXpSec, gardenGrowthSec, treeType,
          harvestedOnThisTree, fruitCollection, labels, profile, sbUser,
          syncing, syncTimer, syncPc, rpc, forcePushOnce, deletedLabelIds,
          remoteProfile, remoteLabels, remoteSessions, sessionDeletes,
          labelDeletes, nextId, opsLeft, ret, fnIn, fnOut>>

(* ------------------------------- inputs ------------------------------- *)

\* Durations handed to saveSession, in half seconds: -0.5 s, 59 s, 59.5 s,
\* 60 s and 2 h 30 min.
DurInputs == {-1, 118, 119, 120, 18000}

Times == 1..MaxTime

\* Values of the tree type select; "" is no selection.
TreeChoices == {"", "Apple", "Orange"}

Themes == {"midnight", "violet"}

\* Identifiers handed to deleteSessionById: the empty one, every one that
\* saveSession generates (one more than it ever does), and the backups'.
DeleteInputs == (0..(MaxIds + 1)) \cup {101, 102}

\* A session delete request for every session of the user.
AllSessions == -1

NoRow == [exists |-> FALSE]

NoCall == [st |-> "none"]

NoResult == [fn |-> "none"]

\* Parsed backup files: a consistent backup of one session and one label, a
\* hand-edited one whose session is 30 s long and has no clientId, and a file
\* that is not a backup (no sessions array).  Keys a file does not hold fall back to
\* defaultState() in importStateFromFile.
ImportFiles ==
  { [valid |-> TRUE,
     sessions |-> << [id |-> 101, clientId |-> 101, endTs |-> 1,
                      durationSec |-> 60] >>,
     xpSec |-> 60, growthSec |-> 60,
     labels |-> << [id |-> 201, name |-> "Maths"] >>],
    [valid |-> TRUE,
     sessions |-> << [id |-> 102, clientId |-> 0, endTs |-> 2,
                      durationSec |-> 30] >>,
     xpSec |-> 30, growthSec |-> 30, labels |-> << >>],
    [valid |-> FALSE, sessions |-> << >>, xpSec |-> 0, growthSec |-> 0,
     labels |-> << >>] }

(* ------------------------------- Init --------------------------------- *)

\* What an operation leaves in ret: its name, its argument, whether it
\* returned success, the identifier it created or removed, the ledger and
\* counters it started from (pre), and whether it is the deletion of the
\* session that the operation right before it created (undo).
Ret(op, arg, ok, id, pre) ==
  [op |-> op, arg |-> arg, ok |-> ok, id |-> id, pre |-> pre,
   undo |-> /\ op = "deleteSessionById" /\ ok
            /\ ret.op = "saveSession" /\ ret.ok /\ ret.id = arg]

NoPre == [has |-> FALSE]

Snapshot ==
  [has |-> TRUE, sessions |-> sessions, xpSec |-> islandXpSec,
   growthSec |-> gardenGrowthSec, harvested |-> harvestedOnThisTree,
   fruits |-> fruitCollection]

\* defaultState(), signed out, nothing in flight, an empty remote store.
InitApp ==
  /\ sessions = << >>
  /\ islandXpSec = 0
  /\ gardenGrowthSec = 0
  /\ treeType = "Apple"
  /\ harvestedOnThisTree = 0
  /\ fruitCollection = EmptyFruitCollection
  /\ labels = << >>
  /\ profile = [theme |-> "midnight"]
  /\ sbUser = FALSE
  /\ syncing = FALSE
  /\ syncTimer = 0
  /\ syncPc = "idle"
  /\ rpc = NoCall
  /\ forcePushOnce = FALSE
  /\ deletedLabelIds = << >>
  /\ remoteProfile = NoRow
  /\ remoteLabels = {}
  /\ remoteSessions = {}
  /\ sessionDeletes = {}
  /\ labelDeletes = {}
  /\ nextId = 1
  /\ ret = [op |-> "init", arg |-> 0, ok |-> TRUE, id |-> 0, pre |-> NoPre,
            undo |-> FALSE]

Init ==
  /\ InitApp
  /\ opsLeft = MaxUserOps
  /\ fnIn = 0
  /\ fnOut = NoResult

\* The same, with no bound on the number of user operations.
InitLedger ==
  /\ InitApp
  /\ opsLeft = -1
  /\ fnIn = 0
  /\ fnOut = NoResult

(* --------------------------- local operations ------------------------- *)

sbSignedIn == sbUser

\* One more user operation, while the budget lasts.
Tick ==
  /\ opsLeft # 0
  /\ opsLeft' = IF opsLeft > 0 THEN opsLeft - 1 ELSE opsLeft

\* queueSyncSoon(ms): the timer after the call.
queueSyncSoon(ms) == IF sbSignedIn THEN ms ELSE syncTimer

sbUpsertSoon == queueSyncSoon(250)

\* Variant: the session credits the Island only.
saveSession_islandOnly(h, ts) ==
  /\ Tick
  /\ LET dur == Max(0, Round(h))
    IN  IF dur < 60
        THEN /\ ret' = Ret("saveSession", h, FALSE, 0, NoPre)
             /\ UNCHANGED <<ledgerVars, gardenVars, settingVars, sbUser,
                            syncTimer, passVars, remoteVars, sessionDeletes,
                            nextId, pureVars>>
        ELSE /\ nextId <= MaxIds
             /\ sessions' = << [id |-> nextId, clientId |-> nextId,
                                endTs |-> ts, durationSec |-> dur] >>
                            \o sessions
             /\ islandXpSec' = islandXpSec + dur
             /\ syncTimer' = sbUpsertSoon
             /\ nextId' = nextId + 1
             /\ ret' = Ret("saveSession", h, TRUE, nextId, Snapshot)
             /\ UNCHANGED <<gardenGrowthSec, gardenVars, settingVars, sbUser,
                            passVars, remoteVars, sessionDeletes, pureVars>>

\* saveSession({durationSec: h/2, endedAt: ts}); ts is also what now() reads
\* when endedAt is not given.
saveSession(h, ts) ==
  /\ Tick
  /\ LET dur == Max(0, Round(h))
    IN  IF dur < 60
        THEN /\ ret' = Ret("saveSession", h, FALSE, 0, NoPre)
             /\ UNCHANGED <<ledgerVars, gardenVars, settingVars, sbUser,
                            syncTimer, passVars, remoteVars, sessionDeletes,
                            nextId, pureVars>>
        ELSE /\ nextId <= MaxIds
             /\ sessions' = << [id |-> nextId, clientId |-> nextId,
                                endTs |-> ts, durationSec |-> dur] >>
                            \o sessions
             /\ islandXpSec' = islandXpSec + dur
             /\ gardenGrowthSec' = gardenGrowthSec + dur
             /\ syncTimer' = sbUpsertSoon
             /\ nextId' = nextId + 1
             /\ ret' = Ret("saveSession", h, TRUE, nextId, Snapshot)
             /\ UNCHANGED <<gardenVars, settingVars, sbUser, passVars,
                            remoteVars, sessionDeletes, pureVars>>

\* sbDeleteSession(clientId): the delete requests in flight after the call.
sbDeleteSession(clientId) ==
  IF sbSignedIn THEN sessionDeletes \cup {clientId} ELSE sessionDeletes

sbDeleteAllSessions ==
  IF sbSignedIn THEN sessionDeletes \cup {AllSessions} ELSE sessionDeletes

deleteSessionById(sessionId) ==
  /\ Tick
  /\ LET idx == FindIndex(sessions, sessionId)
        removed == sessions[idx]
        dur == removed.durationSec
        key == IF removed.clientId # 0 THEN removed.clientId
               ELSE IF removed.id # 0 THEN removed.id ELSE sessionId
    IN  IF sessionId = 0 \/ idx = 0
        THEN /\ ret' = Ret("deleteSessionById", sessionId, FALSE, 0, NoPre)
             /\ UNCHANGED <<ledgerVars, gardenVars, settingVars, sbUser,
                            syncTimer, passVars, remoteVars, sessionDeletes,
                            nextId, pureVars>>
        ELSE /\ sessions' = RemoveAt(sessions, idx)
             /\ islandXpSec' = Max(0, islandXpSec - dur)
             /\ gardenGrowthSec' = Max(0, gardenGrowthSec - dur)
             /\ sessionDeletes' = sbDeleteSession(key)
             /\ ret' = Ret("deleteSessionById", sessionId, TRUE, removed.id,
                           Snapshot)
             /\ UNCHANGED <<gardenVars, settingVars, sbUser, syncTimer,
                            passVars, remoteVars, nextId, pureVars>>

\* Variant: the harvest count and the fruit collection survive the reset.
resetStats_keepFruits ==
  /\ Tick
  /\ sessions' = << >>
  /\ islandXpSec' = 0
  /\ gardenGrowthSec' = 0
  /\ sessionDeletes' = sbDeleteAllSessions
  /\ syncTimer' = sbUpsertSoon
  /\ ret' = Ret("resetStats", 0, TRUE, 0, Snapshot)
  /\ UNCHANGED <<gardenVars, settingVars, sbUser, passVars, remoteVars,
                 nextId, pureVars>>

resetStats ==
  /\ Tick
  /\ sessions' = << >>
  /\ islandXpSec' = 0
  /\ gardenGrowthSec' = 0
  /\ harvestedOnThisTree' = 0
  /\ fruitCollection' = EmptyFruitCollection
  /\ sessionDeletes' = sbDeleteAllSessions
  /\ syncTimer' = sbUpsertSoon
  /\ ret' = Ret("resetStats", 0, TRUE, 0, Snapshot)
  /\ UNCHANGED <<treeType, settingVars, sbUser, passVars, remoteVars,
                 nextId, pureVars>>

\* Variant: the tree type is assigned whatever the argument is.
restartTree_always(newType) ==
  /\ Tick
  /\ treeType' = newType
  /\ gardenGrowthSec' = 0
  /\ harvestedOnThisTree' = 0
  /\ ret' = Ret("restartTree", newType, TRUE, 0, NoPre)
  /\ UNCHANGED <<sessions, islandXpSec, fruitCollection, settingVars,
                 sbUser, syncTimer, passVars, remoteVars, sessionDeletes,
                 nextId, pureVars>>

restartTree(newType) ==
  /\ Tick
  /\ treeType' = IF newType # "" THEN newType ELSE treeType
  /\ gardenGrowthSec' = 0
  /\ harvestedOnThisTree' = 0
  /\ ret' = Ret("restartTree", newType, TRUE, 0, NoPre)
  /\ UNCHANGED <<sessions, islandXpSec, fruitCollection, settingVars,
                 sbUser, syncTimer, passVars, remoteVars, sessionDeletes,
                 nextId, pureVars>>

\* Variant: the fruits are collected without being counted as harvested.
harvestFruits_uncounted ==
  /\ Tick
  /\ LET ready == computeFruitsReady(gardenGrowthSec, harvestedOnThisTree)
    IN  IF ready <= 0
        THEN /\ ret' = Ret("harvestFruits", 0, FALSE, 0, NoPre)
             /\ UNCHANGED <<ledgerVars, gardenVars, settingVars, sbUser,
                            syncTimer, passVars, remoteVars, sessionDeletes,
                            nextId, pureVars>>
        ELSE /\ fruitCollection' =
                  [fruitCollection EXCEPT ![treeType] = @ + ready]
             /\ ret' = Ret("harvestFruits", ready, TRUE, 0, NoPre)
             /\ UNCHANGED <<ledgerVars, treeType, harvestedOnThisTree,
                            settingVars, sbUser, syncTimer, passVars,
                            remoteVars, sessionDeletes, nextId, pureVars>>

harvestFruits ==
  /\ Tick
  /\ LET ready == computeFruitsReady(gardenGrowthSec, harvestedOnThisTree)
    IN  IF ready <= 0
        THEN /\ ret' = Ret("harvestFruits", 0, FALSE, 0, NoPre)
             /\ UNCHANGED <<ledgerVars, gardenVars, settingVars, sbUser,
                            syncTimer, passVars, remoteVars, sessionDeletes,
                            nextId, pureVars>>
        ELSE /\ fruitCollection' =
                  [fruitCollection EXCEPT ![treeType] = @ + ready]
             /\ harvestedOnThisTree' = harvestedOnThisTree + ready
             /\ ret' = Ret("harvestFruits", ready, TRUE, 0, NoPre)
             /\ UNCHANGED <<ledgerVars, treeType, settingVars, sbUser,
                            syncTimer, passVars, remoteVars, sessionDeletes,
                            nextId, pureVars>>

saveAppSettings(theme) ==
  /\ Tick
  /\ profile' = [profile EXCEPT !.theme = theme]
  /\ ret' = Ret("saveAppSettings", 0, TRUE, 0, NoPre)
  /\ UNCHANGED <<ledgerVars, gardenVars, labels, sbUser, syncTimer,
                 passVars, remoteVars, sessionDeletes, nextId, pureVars>>

\* The reader.onload callback of importStateFromFile.
importStateFromFile(file) ==
  /\ Tick
  /\ IF ~file.valid
    THEN /\ ret' = Ret("importStateFromFile", 0, FALSE, 0, NoPre)
         /\ UNCHANGED <<ledgerVars, gardenVars, settingVars, sbUser,
                        syncTimer, passVars, remoteVars, sessionDeletes,
                        nextId, pureVars>>
    ELSE /\ sessions' = file.sessions
         /\ islandXpSec' = file.xpSec
         /\ gardenGrowthSec' = file.growthSec
         /\ treeType' = "Apple"
         /\ harvestedOnThisTree' = 0
         /\ fruitCollection' = EmptyFruitCollection
         /\ labels' = file.labels
         /\ profile' = [theme |-> "midnight"]
         /\ forcePushOnce' = IF sbSignedIn THEN TRUE ELSE forcePushOnce
         /\ syncTimer' = queueSyncSoon(50)
         /\ ret' = Ret("importStateFromFile", 0, TRUE, 0, NoPre)
         /\ UNCHANGED <<sbUser, syncing, syncPc, rpc, deletedLabelIds,
                        remoteVars, sessionDeletes, nextId, pureVars>>

\* onAuthStateChange: a sign-in (user = TRUE) or a sign-out.
authStateChange(user) ==
  /\ Tick
  /\ sbUser' = user
  /\ syncTimer' = IF user THEN 50 ELSE syncTimer
  /\ ret' = Ret("authStateChange", 0, user, 0, NoPre)
  /\ UNCHANGED <<ledgerVars, gardenVars, settingVars, passVars, remoteVars,
                 sessionDeletes, nextId, pureVars>>


\* The sync-now buttons: a pass is asked for, if someone is signed in.
syncNow ==
  /\ Tick
  /\ syncTimer' = queueSyncSoon(50)
  /\ ret' = Ret("syncNow", 0, sbSignedIn, 0, NoPre)
  /\ UNCHANGED <<ledgerVars, gardenVars, settingVars, sbUser, passVars,
                 remoteVars, sessionDeletes, nextId, pureVars>>

\* sbQueueDeleteLabel(localId): the tombstone queue after the call.
QueueWith(id) ==
  IF id = 0 \/ (\E i \in 1..Len(deletedLabelIds) : deletedLabelIds[i] = id)
  THEN deletedLabelIds
  ELSE Append(deletedLabelIds, id)

deleteLabel(id) ==
  /\ Tick
  /\ LET idx == FindIndex(labels, id)
    IN  IF idx = 0
        THEN /\ ret' = Ret("deleteLabel", id, FALSE, 0, NoPre)
             /\ UNCHANGED <<ledgerVars, gardenVars, settingVars, sbUser,
                            syncTimer, passVars, remoteVars, sessionDeletes,
                            nextId, pureVars>>
        ELSE /\ labels' = RemoveAt(labels, idx)
             /\ deletedLabelIds' = QueueWith(id)
             \* if online, try immediately (sbDeleteLabelsNow([id]))
             /\ labelDeletes' =
                  IF sbSignedIn /\ id # 0
                  THEN labelDeletes \cup {[id |-> id, st |-> "sent"]}
                  ELSE labelDeletes
             /\ syncTimer' = sbUpsertSoon
             /\ ret' = Ret("deleteLabel", id, TRUE, id, NoPre)
             /\ UNCHANGED <<ledgerVars, gardenVars, profile, sbUser, syncing,
                            syncPc, rpc, forcePushOnce, remoteProfile,
                            remoteLabels, remoteSessions, sessionDeletes,
                            nextId, pureVars>>

\* The characters String.prototype.trim removes, as far as the inputs hold
\* them: the space and the tab.
Whitespace == {" ", "\t"}

RECURSIVE TrimStart(_)
TrimStart(text) ==
  IF text # "" /\ SubSeq(text, 1, 1) \in Whitespace
  THEN TrimStart(SubSeq(text, 2, Len(text)))
  ELSE text

RECURSIVE TrimEnd(_)
TrimEnd(text) ==
  IF text # "" /\ SubSeq(text, Len(text), Len(text)) \in Whitespace
  THEN TrimEnd(SubSeq(text, 1, Len(text) - 1))
  ELSE text

Trim(text) == TrimEnd(TrimStart(text))

\* text.slice(0, n)
SliceTo(text, n) == SubSeq(text, 1, Min(Len(text), n))

LabelNameMax == 24

\* The identifiers uid('lbl') may return: one that nothing holds yet.
LabelIdPool == 201..(200 + MaxLabels)

UsedLabelIds ==
  {labels[i].id : i \in 1..Len(labels)}
    \cup {deletedLabelIds[i] : i \in 1..Len(deletedLabelIds)}
    \cup {r.local_id : r \in remoteLabels}
    \cup {d.id : d \in labelDeletes}

\* Variant: a name some label already has is refused.
createLabel_unique(name) ==
  /\ Tick
  /\ LET n == Trim(name)
     IN  IF n = "" \/ (\E i \in 1..Len(labels) :
                         labels[i].name = SliceTo(n, LabelNameMax))
         THEN /\ ret' = Ret("createLabel", name, FALSE, 0, NoPre)
              /\ UNCHANGED <<ledgerVars, gardenVars, settingVars, sbUser,
                             syncTimer, passVars, remoteVars, sessionDeletes,
                             nextId, pureVars>>
         ELSE /\ LabelIdPool \ UsedLabelIds # {}
              /\ LET id == CHOOSE x \in LabelIdPool \ UsedLabelIds :
                             \A y \in LabelIdPool \ UsedLabelIds : x <= y
                 IN  /\ labels' =
                          Append(labels,
                                 [id |-> id,
                                  name |-> SliceTo(n, LabelNameMax)])
                     /\ ret' = Ret("createLabel", name, TRUE, id, NoPre)
              /\ syncTimer' = sbUpsertSoon
              /\ UNCHANGED <<ledgerVars, gardenVars, profile, sbUser,
                             passVars, remoteVars, sessionDeletes, nextId,
                             pureVars>>

createLabel(name) ==
  /\ Tick
  /\ LET n == Trim(name)
     IN  IF n = ""
         THEN /\ ret' = Ret("createLabel", name, FALSE, 0, NoPre)
              /\ UNCHANGED <<ledgerVars, gardenVars, settingVars, sbUser,
                             syncTimer, passVars, remoteVars, sessionDeletes,
                             nextId, pureVars>>
         ELSE /\ LabelIdPool \ UsedLabelIds # {}
              /\ LET id == CHOOSE x \in LabelIdPool \ UsedLabelIds :
                             \A y \in LabelIdPool \ UsedLabelIds : x <= y
                 IN  /\ labels' =
                          Append(labels,
                                 [id |-> id,
                                  name |-> SliceTo(n, LabelNameMax)])
                     /\ ret' = Ret("createLabel", name, TRUE, id, NoPre)
              /\ syncTimer' = sbUpsertSoon
              /\ UNCHANGED <<ledgerVars, gardenVars, profile, sbUser,
                             passVars, remoteVars, sessionDeletes, nextId,
                             pureVars>>

(* ------------------------- rows and local shape ----------------------- *)

localProfileToRow ==
  [exists |-> TRUE,
   theme |-> profile.theme,
   island_xp_sec |-> islandXpSec,
   garden_growth_sec |-> gardenGrowthSec,
   garden_tree_type |-> treeType,
   garden_harvested_on_tree |-> harvestedOnThisTree,
   fruit_collection |-> fruitCollection]

localSessionToRow(s) ==
  [client_id |-> IF s.clientId # 0 THEN s.clientId ELSE s.id,
   ended_at |-> s.endTs,
   duration_sec |-> s.durationSec]

rowToLocalSession(r) ==
  [id |-> r.client_id, clientId |-> r.client_id, endTs |-> r.ended_at,
   durationSec |-> r.duration_sec]

localLabelToRow(l) == [local_id |-> l.id, name |-> l.name]

rowToLocalLabel(r) == [id |-> r.local_id, name |-> r.name]

MapSeq(Op(_), ss) == [i \in 1..Len(ss) |-> Op(ss[i])]

\* ensureClientIds on the ledger: a session without clientId takes its id.
\* (Every session of this model has an id, so the second fallback of the
\* code, a random identifier, is never taken.)
ensureClientIds(ss) ==
  [i \in 1..Len(ss) |->
     IF ss[i].clientId # 0 THEN ss[i]
     ELSE [ss[i] EXCEPT !.clientId = ss[i].id]]

\* The sequences that list every element of S once.
SeqsOf(S) ==
  {f \in [1..Cardinality(S) -> S] :
     \A i, j \in 1..Cardinality(S) : i # j => f[i] # f[j]}

\* ... ordered by ended_at descending, as the session select asks.
SeqsByEndedAtDesc(S) ==
  {f \in SeqsOf(S) :
     \A i, j \in 1..Cardinality(S) : i < j => f[i].ended_at >= f[j].ended_at}

\* new Map(entries) followed by Map.set: key k takes value v, in place when
\* the key is there, at the end otherwise.  m is a sequence of <<key, value>>.
RECURSIVE KeyIndexFrom(_, _, _)
KeyIndexFrom(m, k, i) ==
  IF i > Len(m) THEN 0
  ELSE IF m[i][1] = k THEN i
  ELSE KeyIndexFrom(m, k, i + 1)

MapHas(m, k) == KeyIndexFrom(m, k, 1) # 0

MapSet(m, k, v) ==
  IF MapHas(m, k)
  THEN [m EXCEPT ![KeyIndexFrom(m, k, 1)] = <<k, v>>]
  ELSE Append(m, <<k, v>>)

RECURSIVE MapFrom(_, _, _)
MapFrom(Key(_), ss, m) ==
  IF ss = << >> THEN m
  ELSE MapFrom(Key, Tail(ss), MapSet(m, Key(Head(ss)), Head(ss)))

MapValues(m) == [i \in 1..Len(m) |-> m[i][2]]

\* Array.prototype.sort with (a, b) => b.endTs - a.endTs: stable, descending.
RECURSIVE InsertDesc(_, _)
InsertDesc(sorted, x) ==
  IF sorted = << >> THEN << x >>
  ELSE IF Head(sorted).endTs >= x.endTs
       THEN << Head(sorted) >> \o InsertDesc(Tail(sorted), x)
       ELSE << x >> \o sorted

RECURSIVE SortDesc(_, _)
SortDesc(ss, acc) ==
  IF ss = << >> THEN acc ELSE SortDesc(Tail(ss), InsertDesc(acc, Head(ss)))

SessionKey(s) == IF s.clientId # 0 THEN s.clientId ELSE s.id

LabelKey(l) == l.id

\* Variant: a pulled row replaces the local session of its key.
RECURSIVE AddAbsent_remoteWins(_, _)
AddAbsent_remoteWins(m, rs) ==
  IF rs = << >> THEN m
  ELSE AddAbsent_remoteWins(MapSet(m, SessionKey(Head(rs)), Head(rs)),
                            Tail(rs))

\* The session merge of the pull: local wins on a clientId both sides hold.
RECURSIVE AddAbsent(_, _)
AddAbsent(m, rs) ==
  IF rs = << >> THEN m
  ELSE AddAbsent(IF MapHas(m, SessionKey(Head(rs))) THEN m
                 ELSE MapSet(m, SessionKey(Head(rs)), Head(rs)),
                 Tail(rs))

\* Variant: the ledger becomes the pulled rows.
mergeSessions_remoteOnly(local, data) ==
  SortDesc(MapSeq(rowToLocalSession, data), << >>)

mergeSessions(local, data) ==
  SortDesc(MapValues(AddAbsent(MapFrom(SessionKey, local, << >>),
                               MapSeq(rowToLocalSession, data))),
           << >>)

\* The label merge of the pull: rows whose identifier is queued for deletion
\* are dropped, the others overwrite or extend the local set.
\* Variant: a row is set only where no label has its identifier.
RECURSIVE SetAll_keepLocal(_, _)
SetAll_keepLocal(m, rs) ==
  IF rs = << >> THEN m
  ELSE SetAll_keepLocal(IF MapHas(m, LabelKey(Head(rs))) THEN m
                        ELSE MapSet(m, LabelKey(Head(rs)), Head(rs)),
                        Tail(rs))

RECURSIVE SetAll(_, _)
SetAll(m, rs) ==
  IF rs = << >> THEN m
  ELSE SetAll(MapSet(m, LabelKey(Head(rs)), Head(rs)), Tail(rs))

\* Variant: the rows are merged whatever the queue holds.
mergeLabels_unfiltered(local, data, queue) ==
  MapValues(SetAll(MapFrom(LabelKey, local, << >>),
                   MapSeq(rowToLocalLabel, data)))

mergeLabels(local, data, queue) ==
  LET deleted == {queue[i] : i \in 1..Len(queue)}
      remoteLabelsIn == SelectSeq(MapSeq(rowToLocalLabel, data),
                                  LAMBDA l : l.id \notin deleted)
  IN  MapValues(SetAll(MapFrom(LabelKey, local, << >>), remoteLabelsIn))


(* ----------------------- the reconciliation pass ---------------------- *)

Sent(body) == [st |-> "sent", body |-> body]

Done(res) == [st |-> "done", res |-> res]

\* The pass is over: its last statements (sb.syncing = false after the final
\* save), or the catch handler of queueSyncSoon after a rejection.
PassEnds ==
  /\ syncing' = FALSE
  /\ syncPc' = "idle"
  /\ rpc' = NoCall

\* A call is issued.  Building the request reads sb.user.id, which throws
\* when the user has signed out meanwhile: the pass rejects.
Issue(pc, body) ==
  IF sbUser
  THEN /\ syncing' = TRUE
       /\ syncPc' = pc
       /\ rpc' = Sent(body)
  ELSE PassEnds

\* Variant: the one-shot flag is left as it is.
BeginPush_keepsFlag(row) ==
  /\ forcePushOnce' = forcePushOnce
  /\ Issue("pushProfile", row)

\* "3) Push": the one-shot flag is consumed, then the profile upsert, whose
\* row is built from the given local values.
BeginPush(row) ==
  /\ forcePushOnce' = FALSE
  /\ Issue("pushProfile", row)

\* After the tombstone flush: the pull, unless the one-shot flag skips it.
BeginPull(row) ==
  IF forcePushOnce
  THEN BeginPush(row)
  ELSE /\ forcePushOnce' = forcePushOnce
       /\ Issue("pullProfile", << >>)

\* Variant: the pass ends without a session upsert.
PushSessionsOrEnd_skipped(ss) == PassEnds

\* After the label upsert (or when there are no labels): the session upsert,
\* skipped when the ledger is empty, and the end of the pass.
PushSessionsOrEnd(ss) ==
  IF ss # << >>
  THEN Issue("pushSessions", MapSeq(localSessionToRow, ss))
  ELSE PassEnds

\* After the profile upsert: the label upsert, skipped without labels.
PushLabelsOrNext(ls, ss) ==
  IF ls # << >>
  THEN Issue("pushLabels", MapSeq(localLabelToRow, ls))
  ELSE PushSessionsOrEnd(ss)

\* Variant: fullSync() does not look at sb.syncing.
TimerFires_unguarded ==
  /\ syncTimer # 0
  /\ syncTimer' = 0
  /\ IF ~sbSignedIn
     THEN /\ ret' = Ret("fullSync", 0, FALSE, 0, NoPre)
          /\ UNCHANGED <<ledgerVars, gardenVars, settingVars, sbUser,
                         passVars, remoteVars, sessionDeletes, nextId,
                         pureVars, opsLeft>>
     ELSE /\ sessions' = ensureClientIds(sessions)
          /\ IF deletedLabelIds # << >>
             THEN /\ Issue("flush", deletedLabelIds)
                  /\ forcePushOnce' = forcePushOnce
             ELSE BeginPull(localProfileToRow)
          /\ ret' = Ret("fullSync", 0, TRUE, 0, NoPre)
          /\ UNCHANGED <<islandXpSec, gardenGrowthSec, gardenVars,
                         settingVars, sbUser, deletedLabelIds, remoteVars,
                         sessionDeletes, nextId, pureVars, opsLeft>>

\* The debounce timer fires: fullSync() up to its first remote call.
TimerFires ==
  /\ syncTimer # 0
  /\ syncTimer' = 0
  /\ IF ~sbSignedIn \/ syncing
     THEN /\ ret' = Ret("fullSync", 0, FALSE, 0, NoPre)
          /\ UNCHANGED <<ledgerVars, gardenVars, settingVars, sbUser,
                         passVars, remoteVars, sessionDeletes, nextId,
                         pureVars, opsLeft>>
     ELSE /\ sessions' = ensureClientIds(sessions)
          /\ IF deletedLabelIds # << >>
             THEN /\ Issue("flush", deletedLabelIds)
                  /\ forcePushOnce' = forcePushOnce
             ELSE BeginPull(localProfileToRow)
          /\ ret' = Ret("fullSync", 0, TRUE, 0, NoPre)
          /\ UNCHANGED <<islandXpSec, gardenGrowthSec, gardenVars,
                         settingVars, sbUser, deletedLabelIds, remoteVars,
                         sessionDeletes, nextId, pureVars, opsLeft>>

\* Variant: the queue is emptied whatever the bulk delete answered.
FlushDone_dropsQueue ==
  /\ syncPc = "flush"
  /\ rpc.st = "done"
  /\ deletedLabelIds' = << >>
  /\ BeginPull(localProfileToRow)
  /\ ret' = Ret("fullSync", 1, rpc.res.ok, 0, NoPre)
  /\ UNCHANGED <<ledgerVars, gardenVars, settingVars, sbUser, syncTimer,
                 remoteVars, sessionDeletes, nextId, pureVars, opsLeft>>

\* sbDeleteLabelsNow resumes inside the pass.
FlushDone ==
  /\ syncPc = "flush"
  /\ rpc.st = "done"
  /\ deletedLabelIds' = IF rpc.res.ok THEN << >> ELSE deletedLabelIds
  /\ BeginPull(localProfileToRow)
  /\ ret' = Ret("fullSync", 1, rpc.res.ok, 0, NoPre)
  /\ UNCHANGED <<ledgerVars, gardenVars, settingVars, sbUser, syncTimer,
                 remoteVars, sessionDeletes, nextId, pureVars, opsLeft>>

\* Variant: the rejection is not caught, sb.syncing stays up.
PassThrows_uncaught ==
  /\ syncPc \in {"pullProfile", "pullLabels", "pullSessions", "pushProfile",
                 "pushLabels", "pushSessions"}
  /\ rpc.st = "done"
  /\ rpc.res.thrown
  /\ syncing' = TRUE
  /\ syncPc' = "idle"
  /\ rpc' = NoCall
  /\ ret' = Ret("fullSync", 9, FALSE, 0, NoPre)
  /\ UNCHANGED <<ledgerVars, gardenVars, settingVars, sbUser, syncTimer,
                 forcePushOnce, deletedLabelIds, remoteVars, sessionDeletes,
                 nextId, pureVars, opsLeft>>

\* The remote call threw (the transport rejected): fullSync rejects and the
\* catch handler of queueSyncSoon runs.
PassThrows ==
  /\ syncPc \in {"pullProfile", "pullLabels", "pullSessions", "pushProfile",
                 "pushLabels", "pushSessions"}
  /\ rpc.st = "done"
  /\ rpc.res.thrown
  /\ PassEnds
  /\ ret' = Ret("fullSync", 9, FALSE, 0, NoPre)
  /\ UNCHANGED <<ledgerVars, gardenVars, settingVars, sbUser, syncTimer,
                 forcePushOnce, deletedLabelIds, remoteVars, sessionDeletes,
                 nextId, pureVars, opsLeft>>

\* applyProfileRow(r) for a row r the pass pulled; every column of a row the
\* application wrote is set.
applyProfileRow(r) ==
  /\ profile' = [profile EXCEPT !.theme = r.theme]
  /\ islandXpSec' = r.island_xp_sec
  /\ gardenGrowthSec' = r.garden_growth_sec
  /\ treeType' = IF r.garden_tree_type # "" THEN r.garden_tree_type
                 ELSE treeType
  /\ harvestedOnThisTree' = r.garden_harvested_on_tree
  /\ fruitCollection' =
       [k \in FruitKinds |->
          IF k \in DOMAIN r.fruit_collection THEN r.fruit_collection[k]
          ELSE fruitCollection[k]]

\* "1) Pull remote profile" resumes.
PullProfileDone ==
  /\ syncPc = "pullProfile"
  /\ rpc.st = "done"
  /\ ~rpc.res.thrown
  /\ IF ~rpc.res.error /\ rpc.res.data.exists
     THEN applyProfileRow(rpc.res.data)
     ELSE UNCHANGED <<profile, islandXpSec, gardenGrowthSec, gardenVars>>
  /\ Issue("pullLabels", << >>)
  /\ ret' = Ret("fullSync", 2, ~rpc.res.error, 0, NoPre)
  /\ UNCHANGED <<sessions, labels, sbUser, syncTimer, forcePushOnce,
                 deletedLabelIds, remoteVars, sessionDeletes, nextId,
                 pureVars, opsLeft>>

\* The label select resumes.
PullLabelsDone ==
  /\ syncPc = "pullLabels"
  /\ rpc.st = "done"
  /\ ~rpc.res.thrown
  /\ labels' = IF ~rpc.res.error
               THEN mergeLabels(labels, rpc.res.data, deletedLabelIds)
               ELSE labels
  /\ Issue("pullSessions", << >>)
  /\ ret' = Ret("fullSync", 3, ~rpc.res.error, 0, NoPre)
  /\ UNCHANGED <<ledgerVars, gardenVars, profile, sbUser, syncTimer,
                 forcePushOnce, deletedLabelIds, remoteVars, sessionDeletes,
                 nextId, pureVars, opsLeft>>

\* The session select resumes; the push starts.
PullSessionsDone ==
  /\ syncPc = "pullSessions"
  /\ rpc.st = "done"
  /\ ~rpc.res.thrown
  /\ sessions' = IF ~rpc.res.error
                 THEN mergeSessions(sessions, rpc.res.data)
                 ELSE sessions
  /\ BeginPush(localProfileToRow)
  /\ ret' = Ret("fullSync", 4, ~rpc.res.error, 0, NoPre)
  /\ UNCHANGED <<islandXpSec, gardenGrowthSec, gardenVars, settingVars,
                 sbUser, syncTimer, deletedLabelIds, remoteVars,
                 sessionDeletes, nextId, pureVars, opsLeft>>

\* The profile upsert resumes.
PushProfileDone ==
  /\ syncPc = "pushProfile"
  /\ rpc.st = "done"
  /\ ~rpc.res.thrown
  /\ PushLabelsOrNext(labels, sessions)
  /\ ret' = Ret("fullSync", 5, ~rpc.res.error, 0, NoPre)
  /\ UNCHANGED <<ledgerVars, gardenVars, settingVars, sbUser, syncTimer,
                 forcePushOnce, deletedLabelIds, remoteVars, sessionDeletes,
                 nextId, pureVars, opsLeft>>

\* The label upsert resumes.
PushLabelsDone ==
  /\ syncPc = "pushLabels"
  /\ rpc.st = "done"
  /\ ~rpc.res.thrown
  /\ PushSessionsOrEnd(sessions)
  /\ ret' = Ret("fullSync", 6, ~rpc.res.error, 0, NoPre)
  /\ UNCHANGED <<ledgerVars, gardenVars, settingVars, sbUser, syncTimer,
                 forcePushOnce, deletedLabelIds, remoteVars, sessionDeletes,
                 nextId, pureVars, opsLeft>>

\* The session upsert resumes: the pass ends.
PushSessionsDone ==
  /\ syncPc = "pushSessions"
  /\ rpc.st = "done"
  /\ ~rpc.res.thrown
  /\ PassEnds
  /\ ret' = Ret("fullSync", 7, ~rpc.res.error, 0, NoPre)
  /\ UNCHANGED <<ledgerVars, gardenVars, settingVars, sbUser, syncTimer,
                 forcePushOnce, deletedLabelIds, remoteVars, sessionDeletes,
                 nextId, pureVars, opsLeft>>


(* --------------------------- the remote store ------------------------- *)

Answer(data) == [thrown |-> FALSE, error |-> FALSE, data |-> data]

ErrorResult == [thrown |-> FALSE, error |-> TRUE]

Thrown == [thrown |-> TRUE, error |-> TRUE]

SeqToSet(ss) == {ss[i] : i \in 1..Len(ss)}

\* No two rows of one upsert statement may hit the same conflict key.
DistinctKeys(Key(_), rows) ==
  \A i, j \in 1..Len(rows) : i # j => Key(rows[i]) # Key(rows[j])

\* insert ... on conflict (key) do update: the table after the statement.
Upsert(Key(_), table, rows) ==
  {r \in table : \A i \in 1..Len(rows) : Key(rows[i]) # Key(r)}
    \cup SeqToSet(rows)

SessionRowKey(r) == r.client_id

LabelRowKey(r) == r.local_id

\* unique(user_id, name) of table labels.
UniqueNames(table) == \A a, b \in table : a.name = b.name => a = b

\* The server handles the call the pass is waiting for, successfully.
ServerHandlesCall ==
  /\ rpc.st = "sent"
  /\ \/ /\ syncPc = "flush"
        /\ remoteLabels' =
             {r \in remoteLabels : r.local_id \notin SeqToSet(rpc.body)}
        /\ rpc' = Done([ok |-> TRUE, ids |-> rpc.body])
        /\ UNCHANGED <<remoteProfile, remoteSessions>>
     \/ /\ syncPc = "pullProfile"
        /\ rpc' = Done(Answer(remoteProfile))
        /\ UNCHANGED <<remoteProfile, remoteLabels, remoteSessions>>
     \/ /\ syncPc = "pullLabels"
        /\ \E data \in SeqsOf(remoteLabels) : rpc' = Done(Answer(data))
        /\ UNCHANGED <<remoteProfile, remoteLabels, remoteSessions>>
     \/ /\ syncPc = "pullSessions"
        /\ \E data \in SeqsByEndedAtDesc(remoteSessions) :
             rpc' = Done(Answer(data))
        /\ UNCHANGED <<remoteProfile, remoteLabels, remoteSessions>>
     \/ /\ syncPc = "pushProfile"
        /\ remoteProfile' = rpc.body
        /\ rpc' = Done(Answer(<< >>))
        /\ UNCHANGED <<remoteLabels, remoteSessions>>
     \/ /\ syncPc = "pushLabels"
        /\ DistinctKeys(LabelRowKey, rpc.body)
        /\ UniqueNames(Upsert(LabelRowKey, remoteLabels, rpc.body))
        /\ remoteLabels' = Upsert(LabelRowKey, remoteLabels, rpc.body)
        /\ rpc' = Done(Answer(<< >>))
        /\ UNCHANGED <<remoteProfile, remoteSessions>>
     \/ /\ syncPc = "pushSessions"
        /\ DistinctKeys(SessionRowKey, rpc.body)
        /\ remoteSessions' = Upsert(SessionRowKey, remoteSessions, rpc.body)
        /\ rpc' = Done(Answer(<< >>))
        /\ UNCHANGED <<remoteProfile, remoteLabels>>
  /\ ret' = Ret("server", 0, TRUE, 0, NoPre)
  /\ UNCHANGED <<ledgerVars, gardenVars, settingVars, sbUser, syncing,
                 syncTimer, syncPc, forcePushOnce, deletedLabelIds,
                 sessionDeletes, labelDeletes, nextId, pureVars, opsLeft>>

\* The call fails: the store answers with an error, or the transport throws
\* (sbDeleteLabelsNow turns both into {ok: false}).
ServerFailsCall ==
  /\ rpc.st = "sent"
  /\ IF syncPc = "flush"
     THEN rpc' = Done([ok |-> FALSE, ids |-> rpc.body])
     ELSE rpc' \in {Done(ErrorResult), Done(Thrown)}
  /\ ret' = Ret("server", 0, FALSE, 0, NoPre)
  /\ UNCHANGED <<ledgerVars, gardenVars, settingVars, sbUser, syncing,
                 syncTimer, syncPc, forcePushOnce, deletedLabelIds,
                 remoteVars, sessionDeletes, nextId, pureVars, opsLeft>>

\* A session delete of sbDeleteSession or sbDeleteAllSessions is handled, or
\* is lost; nobody waits for its answer.
ServerHandlesSessionDelete(k, ok) ==
  /\ k \in sessionDeletes
  /\ sessionDeletes' = sessionDeletes \ {k}
  /\ remoteSessions' =
       IF ~ok THEN remoteSessions
       ELSE IF k = AllSessions THEN {}
       ELSE {r \in remoteSessions : r.client_id # k}
  /\ ret' = Ret("server", 1, ok, 0, NoPre)
  /\ UNCHANGED <<ledgerVars, gardenVars, settingVars, sbUser, syncTimer,
                 passVars, remoteProfile, remoteLabels, labelDeletes,
                 nextId, pureVars, opsLeft>>

\* The remote delete that deleteLabel sent is handled, or fails.
ServerHandlesLabelDelete(d, ok) ==
  /\ d \in labelDeletes
  /\ d.st = "sent"
  /\ labelDeletes' =
       (labelDeletes \ {d})
         \cup {[id |-> d.id, st |-> IF ok THEN "ok" ELSE "failed"]}
  /\ remoteLabels' =
       IF ok THEN {r \in remoteLabels : r.local_id # d.id} ELSE remoteLabels
  /\ ret' = Ret("server", 2, ok, 0, NoPre)
  /\ UNCHANGED <<ledgerVars, gardenVars, settingVars, sbUser, syncTimer,
                 passVars, remoteProfile, remoteSessions, sessionDeletes,
                 nextId, pureVars, opsLeft>>

\* The then-callback of sbQueueDeleteLabel: on success the identifier
\* leaves the tombstone queue.
LabelDeleteResumes(d) ==
  /\ d \in labelDeletes
  /\ d.st # "sent"
  /\ labelDeletes' = labelDeletes \ {d}
  /\ deletedLabelIds' =
       IF d.st = "ok"
       THEN SelectSeq(deletedLabelIds, LAMBDA x : x # d.id)
       ELSE deletedLabelIds
  /\ ret' = Ret("sbQueueDeleteLabel", d.id, d.st = "ok", 0, NoPre)
  /\ UNCHANGED <<ledgerVars, gardenVars, settingVars, sbUser, syncTimer,
                 syncing, syncPc, rpc, forcePushOnce, remoteProfile,
                 remoteLabels, remoteSessions, sessionDeletes, nextId,
                 pureVars, opsLeft>>

(* ----------------------------- the program ---------------------------- *)

\* What the name field of the label dialog may hold: nothing, whitespace,
\* a name, the same name inside whitespace, and names longer than the limit.
LabelNames ==
  {"", " \t ", "Maths", "  Maths ", "abcdefghijklmnopqrstuvwxyz",
   " The history of the Roman republic "}

LabelIdInputs == {0, 201}

Next ==
  \/ \E h \in DurInputs, ts \in Times : saveSession(h, ts)
  \/ \E id \in DeleteInputs : deleteSessionById(id)
  \/ resetStats
  \/ \E t \in TreeChoices : restartTree(t)
  \/ harvestFruits
  \/ \E th \in Themes : saveAppSettings(th)
  \/ \E f \in ImportFiles : importStateFromFile(f)
  \/ \E name \in LabelNames : createLabel(name)
  \/ \E id \in LabelIdInputs : deleteLabel(id)
  \/ \E u \in BOOLEAN : authStateChange(u)
  \/ syncNow
  \/ TimerFires
  \/ FlushDone
  \/ PassThrows
  \/ PullProfileDone
  \/ PullLabelsDone
  \/ PullSessionsDone
  \/ PushProfileDone
  \/ PushLabelsDone
  \/ PushSessionsDone
  \/ ServerHandlesCall
  \/ ServerFailsCall
  \/ \E k \in sessionDeletes, ok \in BOOLEAN : ServerHandlesSessionDelete(k, ok)
  \/ \E d \in labelDeletes, ok \in BOOLEAN : ServerHandlesLabelDelete(d, ok)
  \/ \E d \in labelDeletes : LabelDeleteResumes(d)

Spec == Init /\ [][Next]_vars


(* ------------------- the ledger and the garden alone ------------------ *)

LedgerNext ==
  \/ \E h \in DurInputs : saveSession(h, 1)
  \/ \E id \in DeleteInputs : deleteSessionById(id)
  \/ resetStats
  \/ \E t \in TreeChoices : restartTree(t)
  \/ harvestFruits
  \/ \E u \in BOOLEAN : authStateChange(u)

\* The local operations on the ledger and the progression, signed in or out,
\* any number of them, while the clock stands still, no timer fires and the
\* remote store handles nothing.
SpecLedger == InitLedger /\ [][LedgerNext]_vars

(* ------------------------ the user operations alone ------------------- *)

LocalNext ==
  \/ \E h \in DurInputs, ts \in Times : saveSession(h, ts)
  \/ \E id \in DeleteInputs : deleteSessionById(id)
  \/ resetStats
  \/ \E t \in TreeChoices : restartTree(t)
  \/ harvestFruits
  \/ \E th \in Themes : saveAppSettings(th)
  \/ \E f \in ImportFiles : importStateFromFile(f)
  \/ \E name \in LabelNames : createLabel(name)
  \/ \E id \in LabelIdInputs : deleteLabel(id)
  \/ \E u \in BOOLEAN : authStateChange(u)
  \/ syncNow

\* Every user operation, at most MaxUserOps of them, while no timer fires and
\* the remote store handles nothing.
SpecLocal == Init /\ [][LocalNext]_vars

(* -------------------------- the pure functions ------------------------ *)

\* The application idle, signed out, with the argument x waiting.
InitPure(x) ==
  /\ InitApp
  /\ opsLeft = 0
  /\ fnIn = x
  /\ fnOut = NoResult

\* computeLevel is applied to the argument and to its successor.
ApplyComputeLevel ==
  /\ fnOut = NoResult
  /\ fnOut' = [fn |-> "computeLevel",
               at |-> computeLevel(fnIn),
               succ |-> computeLevel(fnIn + 1)]
  /\ UNCHANGED <<ledgerVars, gardenVars, settingVars, sbUser, syncTimer,
                 passVars, remoteVars, sessionDeletes, nextId, opsLeft, ret,
                 fnIn>>

SpecLevel ==
  (\E x \in 0..MaxLevelIn : InitPure(x)) /\ [][ApplyComputeLevel]_vars

\* getTreeStage is applied to the argument and to its successor.
ApplyGetTreeStage ==
  /\ fnOut = NoResult
  /\ fnOut' = [fn |-> "getTreeStage",
               at |-> getTreeStage(fnIn),
               succ |-> getTreeStage(fnIn + 1)]
  /\ UNCHANGED <<ledgerVars, gardenVars, settingVars, sbUser, syncTimer,
                 passVars, remoteVars, sessionDeletes, nextId, opsLeft, ret,
                 fnIn>>

SpecStage ==
  (\E x \in 0..MaxStageIn : InitPure(x)) /\ [][ApplyGetTreeStage]_vars

\* computeFruitsReady is applied to a garden and to the same garden one
\* second of growth later.
ApplyComputeFruitsReady ==
  /\ fnOut = NoResult
  /\ fnOut' = [fn |-> "computeFruitsReady",
               at |-> computeFruitsReady(fnIn.growthSec, fnIn.harvested),
               succ |-> computeFruitsReady(fnIn.growthSec + 1,
                                           fnIn.harvested)]
  /\ UNCHANGED <<ledgerVars, gardenVars, settingVars, sbUser, syncTimer,
                 passVars, remoteVars, sessionDeletes, nextId, opsLeft, ret,
                 fnIn>>

SpecFruits ==
  /\ \E g \in 0..MaxFruitGrowth, h \in 0..MaxHarvested :
       InitPure([growthSec |-> g, harvested |-> h])
  /\ [][ApplyComputeFruitsReady]_vars

\* Ledgers for computeStreak: sessions of 30 s or 60 s that ended at any tick
\* of the days 0..MaxDay, in any order.
StreakSessions ==
  [endTs : 0..((MaxDay + 1) * TicksPerDay - 1), durationSec : {30, 60}]

StreakLedgers ==
  UNION {[1..n -> StreakSessions] : n \in 0..MaxStreakSessions}

\* computeStreak is applied to a ledger at a reading of the clock.
ApplyComputeStreak ==
  /\ fnOut = NoResult
  /\ fnOut' = [fn |-> "computeStreak",
               at |-> computeStreak(fnIn.sessions, fnIn.now)]
  /\ UNCHANGED <<ledgerVars, gardenVars, settingVars, sbUser, syncTimer,
                 passVars, remoteVars, sessionDeletes, nextId, opsLeft, ret,
                 fnIn>>

SpecStreak ==
  /\ \E ss \in StreakLedgers, today \in 0..(MaxDay + 1) :
       InitPure([sessions |-> ss, now |-> today * TicksPerDay + 1])
  /\ [][ApplyComputeStreak]_vars

\* Stored texts for loadState: no key, an empty text, a text that is not
\* JSON, JSON that is not an object, and objects whose members are absent,
\* null, of the right type or of a wrong one.
StoredObjects ==
  { JObj([extra |-> {},
          profile |-> pr, sessions |-> ss, island |-> isl, garden |-> gd,
          fruitCollection |-> fc, labels |-> lb]) :
      pr \in {JUndefined, JObj([theme |-> JStr("violet")]),
              JObj([theme |-> JStr("neon")])},
      ss \in {JUndefined, JStr("none"),
              JArr(<< [id |-> 1, clientId |-> 1, endTs |-> 1,
                       durationSec |-> 60] >>)},
      isl \in {JUndefined, JNull}
               \cup {JObj([xpSec |-> x]) :
                       x \in {JUndefined, JNull, JNum(120), JStr("12"),
                              JStr("abc")}},
      gd \in {JUndefined,
              JObj([treeType |-> JStr("Orange"), growthSec |-> JNum(60),
                    harvestedOnThisTree |-> JUndefined]),
              JObj([treeType |-> JUndefined, growthSec |-> JStr("abc"),
                    harvestedOnThisTree |-> JNull])},
      fc \in {JUndefined,
              JObj([k \in FruitKinds |->
                      IF k = "Apple" THEN JNum(2) ELSE JUndefined])},
      lb \in {JUndefined, JNull, JObj([items |-> JStr("none")]),
              JObj([items |-> JArr(<< [id |-> 201, name |-> "Maths"] >>)])} }

StoredTexts ==
  {RawAbsent, RawEmpty, RawGarbage}
    \cup {RawJson(v) : v \in {JNull, JNum(0), JNum(5), JStr(""), JStr("ab"),
                              JArr(<< >>), JArr(<< JNum(1) >>)}}
    \cup {RawJson(v) : v \in StoredObjects}

\* loadState runs on a stored text; where it returns, the state is saved
\* and loaded again.
ApplyLoadState ==
  /\ fnOut = NoResult
  /\ fnOut' = LET at == loadState(fnIn)
              IN  [fn |-> "loadState",
                   at |-> at,
                   again |-> IF at.threw THEN at
                             ELSE loadState(savedState(at.state))]
  /\ UNCHANGED <<ledgerVars, gardenVars, settingVars, sbUser, syncTimer,
                 passVars, remoteVars, sessionDeletes, nextId, opsLeft, ret,
                 fnIn>>

SpecLoad ==
  (\E raw \in StoredTexts : InitPure(raw)) /\ [][ApplyLoadState]_vars

(* ------------------------------ the import --------------------------- *)

\* safeParseJson(text): JSON.parse throws on the empty text and on a text
\* that is not JSON.
safeParseJson(raw) ==
  IF raw.kind = "json" THEN [ok |-> TRUE, value |-> raw.value]
  ELSE [ok |-> FALSE]

\* typeof x === 'object'
TypeofObject(x) == x.t \in {"object", "array", "null"}

NotNullish(x) == x.t \notin {"undefined", "null"}

\* Variant: any object passes, with or without a sessions array.
importValid_anyObject(incoming) ==
  /\ Truthy(incoming)
  /\ TypeofObject(incoming)
  /\ incoming.t = "object"

\* The "basic validation" of the import: incoming && typeof incoming ===
\* 'object' && Array.isArray(incoming.sessions).
importValid(incoming) ==
  /\ Truthy(incoming)
  /\ TypeofObject(incoming)
  /\ Member(incoming, "sessions").t = "array"

\* The state the import builds from a backup that passed the validation:
\* the file's keys over those of defaultState().
importedState(incoming) ==
  LET island == Member(incoming, "island")
      garden == Member(incoming, "garden")
      legacyIslandXpSec ==
        IF Truthy(island) THEN Member(island, "xpSec") ELSE JUndefined
      legacyGardenGrowthSec ==
        IF Truthy(garden) THEN Member(garden, "growthSec") ELSE JUndefined
      legacyGardenTreeType ==
        IF Truthy(garden) THEN Member(garden, "treeType") ELSE JUndefined
      legacyGardenHarvested ==
        IF Truthy(garden) THEN Member(garden, "harvestedOnThisTree")
        ELSE JUndefined
      island0 == SpreadOver(DefaultIsland, island)
      garden0 == SpreadOver(DefaultGarden, garden)
  IN  [extra |-> incoming.o.extra,
       profile |-> SpreadOver(DefaultProfile, Member(incoming, "profile")),
       sessions |-> Member(incoming, "sessions"),
       island |->
         [xpSec |-> IF NotNullish(legacyIslandXpSec)
                    THEN Number(legacyIslandXpSec) ELSE island0.xpSec],
       garden |->
         [treeType |-> IF Truthy(legacyGardenTreeType)
                       THEN JStr(StringOf(legacyGardenTreeType))
                       ELSE garden0.treeType,
          growthSec |-> IF NotNullish(legacyGardenGrowthSec)
                        THEN Number(legacyGardenGrowthSec)
                        ELSE garden0.growthSec,
          harvestedOnThisTree |->
            IF NotNullish(legacyGardenHarvested)
            THEN Number(legacyGardenHarvested)
            ELSE garden0.harvestedOnThisTree],
       fruitCollection |->
         SpreadOver(DefaultFruits, Member(incoming, "fruitCollection")),
       labels |-> IF Member(incoming, "labels").t = "undefined"
                  THEN JObj(DefaultLabels)
                  ELSE Member(incoming, "labels")]

\* The application as the import sees it: the state object and the state
\* saveState() last wrote under STORAGE_KEY.
Imported(state, saved) == [fn |-> "import", state |-> state, saved |-> saved]

\* reader.onload of importStateFromFile, the file's text being raw.
readerOnload(raw) ==
  /\ Tick
  /\ fnIn' = raw
  /\ LET parsed == safeParseJson(raw)
     IN  IF ~parsed.ok \/ ~importValid(parsed.value)
         THEN /\ ret' = Ret("importStateFromFile", 0, FALSE, 0, NoPre)
              /\ UNCHANGED <<fnOut, forcePushOnce, syncTimer>>
         ELSE /\ fnOut' = Imported(importedState(parsed.value),
                                   importedState(parsed.value))
              /\ forcePushOnce' = IF sbSignedIn THEN TRUE ELSE forcePushOnce
              /\ syncTimer' = queueSyncSoon(50)
              /\ ret' = Ret("importStateFromFile", 0, TRUE, 0, NoPre)
  /\ UNCHANGED <<ledgerVars, gardenVars, settingVars, sbUser, syncing,
                 syncPc, rpc, deletedLabelIds, remoteVars, sessionDeletes,
                 nextId>>

\* The texts a file may hold: an empty text, a text that is not JSON, JSON
\* that is not an object, and objects with and without a sessions array,
\* their island, garden and labels absent, right or wrong.
ImportTexts ==
  {RawEmpty, RawGarbage}
    \cup {RawJson(v) : v \in {JNull, JNum(5), JStr("ab"), JArr(<< >>),
                              JArr(<< JNum(1) >>)}}
    \cup {RawJson(v) : v \in
            {o \in StoredObjects :
               /\ o.o.profile = JUndefined
               /\ o.o.fruitCollection = JUndefined
               /\ o.o.island \in {JUndefined, JObj([xpSec |-> JNum(120)]),
                                  JObj([xpSec |-> JStr("abc")])}
               /\ o.o.garden.t = "undefined"
                    \/ o.o.garden.o.treeType = JStr("Orange")
               /\ o.o.labels.t \in {"undefined", "object"}}}

ImportNext ==
  \/ \E raw \in ImportTexts : readerOnload(raw)
  \/ \E u \in BOOLEAN : authStateChange(u)

InitImport ==
  /\ InitApp
  /\ opsLeft = -1
  /\ fnIn = RawEmpty
  /\ fnOut = Imported([DefaultLoaded EXCEPT !.labels = JObj(DefaultLabels)],
                      [DefaultLoaded EXCEPT !.labels = JObj(DefaultLabels)])

\* Files are imported, any number of them, signed in or out.
SpecImport == InitImport /\ [][ImportNext]_vars

(* ------------------------------ the labels ---------------------------- *)

LabelsNext ==
  \/ \E name \in LabelNames : createLabel(name)
  \/ \E id \in LabelIdPool : deleteLabel(id)
  \/ \E u \in BOOLEAN : authStateChange(u)

\* Labels are created and deleted, signed in or out, any number of times,
\* while no timer fires and the remote store handles nothing.
SpecLabels == InitLedger /\ [][LabelsNext]_vars

(* ------------------------ labels and their tombstones ----------------- *)

TombstoneNext ==
  \/ \E name \in {"Maths", "Art"} : createLabel(name)
  \/ \E id \in LabelIdPool : deleteLabel(id)
  \/ saveSession(120, 1)
  \/ \E u \in BOOLEAN : authStateChange(u)
  \/ TimerFires
  \/ FlushDone
  \/ PassThrows
  \/ PullProfileDone
  \/ PullLabelsDone
  \/ PullSessionsDone
  \/ PushProfileDone
  \/ PushLabelsDone
  \/ PushSessionsDone
  \/ ServerHandlesCall
  \/ ServerFailsCall
  \/ \E d \in labelDeletes, ok \in BOOLEAN : ServerHandlesLabelDelete(d, ok)
  \/ \E d \in labelDeletes : LabelDeleteResumes(d)

\* defaultState(), signed out, with MaxLabelOps user operations to come.
InitTombstones ==
  /\ InitApp
  /\ opsLeft = MaxLabelOps
  /\ fnIn = 0
  /\ fnOut = NoResult

\* Labels are created and deleted and a session is recorded, at most
\* MaxLabelOps operations by the user, while reconciliation passes run and
\* the remote store answers.
SpecTombstones == InitTombstones /\ [][TombstoneNext]_vars

\* The same with at most MaxUserOps operations by the user.
SpecLabelSync == Init /\ [][TombstoneNext]_vars

(* ------------------------ the reconciliation passes ------------------- *)

SyncNext ==
  \/ TombstoneNext
  \/ syncNow
  \/ \E f \in ImportFiles : importStateFromFile(f)

\* Sessions, labels and backups come and go, someone signs in and out and
\* asks for a sync, at most MaxUserOps operations in all, while the timer
\* fires, passes run and the remote store answers.
SpecSync == Init /\ [][SyncNext]_vars

\* What happens without the user: the timer fires, the remote store
\* answers (or fails) and the awaiting functions resume.
SystemStep ==
  \/ TimerFires
  \/ FlushDone
  \/ PassThrows
  \/ PullProfileDone
  \/ PullLabelsDone
  \/ PullSessionsDone
  \/ PushProfileDone
  \/ PushLabelsDone
  \/ PushSessionsDone
  \/ ServerHandlesCall
  \/ ServerFailsCall
  \/ \E d \in labelDeletes, ok \in BOOLEAN : ServerHandlesLabelDelete(d, ok)
  \/ \E d \in labelDeletes : LabelDeleteResumes(d)

\* The same behaviours where an armed timer fires, a call gets its answer
\* and an answered call resumes: the event loop does not stall.
SpecSyncFair ==
  /\ SpecSync
  /\ WF_vars(TimerFires)
  /\ WF_vars(SystemStep)

\* The steps of a pass that has no tombstone to flush.
PassStep ==
  \/ TimerFires
  \/ PassThrows
  \/ PullProfileDone
  \/ PullLabelsDone
  \/ PullSessionsDone
  \/ PushProfileDone
  \/ PushLabelsDone
  \/ PushSessionsDone
  \/ ServerHandlesCall
  \/ ServerFailsCall

PassNext ==
  \/ createLabel("Maths")
  \/ saveSession(120, 1)
  \/ \E u \in BOOLEAN : authStateChange(u)
  \/ PassStep

\* defaultState(), signed out, with MaxPassOps user operations to come.
InitPass ==
  /\ InitApp
  /\ opsLeft = MaxPassOps
  /\ fnIn = 0
  /\ fnOut = NoResult

\* A label is created, a session is recorded, someone signs in and out, at
\* most MaxPassOps operations in all, while passes run; an armed timer
\* fires, a call gets its answer and an answered call resumes.
SpecPassFair ==
  /\ InitPass
  /\ [][PassNext]_vars
  /\ WF_vars(TimerFires)
  /\ WF_vars(PassStep)

(* ------------------------ sessions and their deletion ---------------- *)

SessionSyncNext ==
  \/ saveSession(120, 1)
  \/ \E id \in DeleteInputs : deleteSessionById(id)
  \/ \E u \in BOOLEAN : authStateChange(u)
  \/ TimerFires
  \/ PassThrows
  \/ PullProfileDone
  \/ PullLabelsDone
  \/ PullSessionsDone
  \/ PushProfileDone
  \/ PushSessionsDone
  \/ ServerHandlesCall
  \/ ServerFailsCall
  \/ \E k \in sessionDeletes, ok \in BOOLEAN :
       ServerHandlesSessionDelete(k, ok)

\* Sessions are recorded and deleted, someone signs in and out, at most
\* MaxUserOps operations in all, while passes run and the remote store
\* answers.  No label exists, so no label upsert is issued.
SpecSessionSync == Init /\ [][SessionSyncNext]_vars

(* ----------------------------- two devices --------------------------- *)

\* Two devices signed in to one identity, as far as sessions go: the two
\* ledgers, the rows of table sessions, the devices whose passes have
\* completed, in order, and the clientIds recorded so far.
Devices(a, b, remote, passes, recorded) ==
  [fn |-> "devices", a |-> a, b |-> b, remote |-> remote,
   passes |-> passes, recorded |-> recorded]

DeviceNames == {"a", "b"}

\* The identifiers saveSession generates on a device: random, so those of
\* one device are not those of the other.
DeviceIds(dev) ==
  IF dev = "a" THEN 1..MaxMergeLen ELSE 11..(10 + MaxMergeLen)

\* saveSession on a device, before any pass has run.
recordOn(dev, ts) ==
  /\ fnOut.passes = << >>
  /\ Len(fnOut[dev]) < MaxMergeLen
  /\ LET id == CHOOSE i \in DeviceIds(dev) :
                 /\ i \notin fnOut.recorded
                 /\ \A k \in DeviceIds(dev) : k < i => k \in fnOut.recorded
         session == [id |-> id, clientId |-> id, endTs |-> ts,
                     durationSec |-> 60]
     IN  fnOut' = [fnOut EXCEPT ![dev] = << session >> \o @,
                                !.recorded = @ \cup {id}]

\* The rows of S in the orders "order by ended_at desc" may return them:
\* a row that ended last comes first, ties in any order.
RECURSIVE RowsByEndedAtDesc(_)
RowsByEndedAtDesc(S) ==
  IF S = {} THEN {<< >>}
  ELSE UNION {{<< r >> \o rest : rest \in RowsByEndedAtDesc(S \ {r})} :
                r \in {x \in S : \A y \in S : x.ended_at >= y.ended_at}}

\* Variant: only the most recent session is upserted.
sessionRows_newest(ss) ==
  IF ss = << >> THEN << >> ELSE << localSessionToRow(Head(ss)) >>

\* const sessionRows = state.sessions.map(localSessionToRow)
sessionRows(ss) == MapSeq(localSessionToRow, ss)

\* A pass of a device that meets no error, from the session select to the
\* session upsert.
devicePass(dev) ==
  /\ Len(fnOut.passes) < 3
  /\ \E data \in RowsByEndedAtDesc(fnOut.remote) :
       LET merged == mergeSessions(ensureClientIds(fnOut[dev]), data)
       IN  fnOut' = [fnOut EXCEPT
                       ![dev] = merged,
                       !.remote = Upsert(SessionRowKey, @,
                                         sessionRows(merged)),
                       !.passes = Append(@, dev)]

DevicesNext ==
  /\ \/ \E dev \in DeviceNames, ts \in Times : recordOn(dev, ts)
     \/ \E dev \in DeviceNames : devicePass(dev)
  /\ UNCHANGED <<ledgerVars, gardenVars, settingVars, sbUser, syncTimer,
                 passVars, remoteVars, sessionDeletes, nextId, opsLeft, ret,
                 fnIn>>

InitDevices ==
  /\ InitApp
  /\ opsLeft = 0
  /\ fnIn = 0
  /\ fnOut = Devices(<< >>, << >>, {}, << >>, {})

\* Sessions are recorded on two devices, then three passes run one after
\* the other.
SpecDevices == InitDevices /\ [][DevicesNext]_vars

(* --------------------------- passes in a row -------------------------- *)

\* One device and the remote store while nobody touches either: the local
\* sections a pass reads and writes, the rows of the three tables,
\* sb.forcePushOnce and the number of passes completed.
Quiet(local, remote, force, passes) ==
  [fn |-> "quiet", local |-> local, remote |-> remote, force |-> force,
   passes |-> passes]

\* localProfileToRow() of the local sections l.
profileRowOf(l) ==
  [exists |-> TRUE, island_xp_sec |-> l.xpSec,
   garden_growth_sec |-> l.growthSec]

\* The local sections after the pull of a pass that meets no error.
pulledFrom(l, remote, labelData, sessionData) ==
  [sessions |-> mergeSessions(l.sessions, sessionData),
   labels |-> mergeLabels(l.labels, labelData, << >>),
   xpSec |-> IF remote.profile.exists THEN remote.profile.island_xp_sec
             ELSE l.xpSec,
   growthSec |-> IF remote.profile.exists
                 THEN remote.profile.garden_growth_sec
                 ELSE l.growthSec]

\* The three tables after the push of the local sections l.
pushedTo(l, remote) ==
  [profile |-> profileRowOf(l),
   labels |-> Upsert(LabelRowKey, remote.labels,
                     MapSeq(localLabelToRow, l.labels)),
   sessions |-> Upsert(SessionRowKey, remote.sessions,
                       sessionRows(l.sessions))]

\* fullSync() from start to end, every call answered without an error and
\* the tombstone queue empty.
quietPass ==
  /\ fnOut.passes < MaxPasses
  /\ \E labelData \in SeqsOf(fnOut.remote.labels),
        sessionData \in RowsByEndedAtDesc(fnOut.remote.sessions) :
       LET l0 == [fnOut.local EXCEPT
                    !.sessions = ensureClientIds(fnOut.local.sessions)]
           l1 == IF fnOut.force THEN l0
                 ELSE pulledFrom(l0, fnOut.remote, labelData, sessionData)
       IN  /\ UniqueNames(pushedTo(l1, fnOut.remote).labels)
           /\ fnOut' = Quiet(l1, pushedTo(l1, fnOut.remote), FALSE,
                             fnOut.passes + 1)
  /\ UNCHANGED <<ledgerVars, gardenVars, settingVars, sbUser, syncTimer,
                 passVars, remoteVars, sessionDeletes, nextId, opsLeft, ret,
                 fnIn>>

\* Local sections and tables a signed-in device may find itself with: a
\* ledger recorded here or restored from a backup, rows pushed earlier from
\* here or from another device, forcePushOnce up after a restore.
QuietLocals ==
  [sessions : {<< >>,
               << [id |-> 1, clientId |-> 1, endTs |-> 1,
                   durationSec |-> 60] >>,
               << [id |-> 102, clientId |-> 0, endTs |-> 2,
                   durationSec |-> 30] >>},
   labels : {<< >>, << [id |-> 201, name |-> "Maths"] >>},
   xpSec : {0, 60},
   growthSec : {60}]

QuietRemotes ==
  [profile : {NoRow, [exists |-> TRUE, island_xp_sec |-> 0,
                      garden_growth_sec |-> 60]},
   labels : SUBSET {[local_id |-> 201, name |-> "Maths"],
                    [local_id |-> 202, name |-> "Art"]},
   sessions : SUBSET {[client_id |-> 1, ended_at |-> 1, duration_sec |-> 60],
                      [client_id |-> 2, ended_at |-> 1,
                       duration_sec |-> 60]}]

InitQuiet ==
  /\ InitApp
  /\ opsLeft = 0
  /\ fnIn = 0
  /\ \E l \in QuietLocals, r \in QuietRemotes, force \in BOOLEAN :
       fnOut = Quiet(l, r, force, 0)

\* Passes run one after the other and nothing else happens.
SpecQuiet == InitQuiet /\ [][quietPass]_vars

(* --------------------------- the debounce timer ----------------------- *)

\* The timer table of the page as far as queueSyncSoon uses it: the
\* timeouts that are armed, the handle the variable syncTimer holds (0 for
\* null), the identifier setTimeout returns next, the requests made by
\* someone signed in since fullSync was last invoked, and the invocations.
Timers(timeouts, handle, next, requested, invoked) ==
  [fn |-> "timers", timeouts |-> timeouts, syncTimer |-> handle,
   nextTimeout |-> next, requested |-> requested, invoked |-> invoked]

\* clearTimeout(handle)
clearTimeout(timeouts, handle) == {x \in timeouts : x.id # handle}

\* Variant: the pending timeout is not cancelled.
queueSyncSoonCall_noClear(ms) ==
  /\ fnOut.nextTimeout <= MaxTimeouts
  /\ fnOut' =
       IF ~sbSignedIn THEN fnOut
       ELSE Timers(fnOut.timeouts
                     \cup {[id |-> fnOut.nextTimeout, ms |-> ms]},
                   fnOut.nextTimeout, fnOut.nextTimeout + 1,
                   fnOut.requested + 1, fnOut.invoked)
  /\ UNCHANGED sbUser

\* queueSyncSoon(ms) on the timer table.
queueSyncSoonCall(ms) ==
  /\ fnOut.nextTimeout <= MaxTimeouts
  /\ fnOut' =
       IF ~sbSignedIn THEN fnOut
       ELSE Timers((IF fnOut.syncTimer # 0
                    THEN clearTimeout(fnOut.timeouts, fnOut.syncTimer)
                    ELSE fnOut.timeouts)
                     \cup {[id |-> fnOut.nextTimeout, ms |-> ms]},
                   fnOut.nextTimeout, fnOut.nextTimeout + 1,
                   fnOut.requested + 1, fnOut.invoked)
  /\ UNCHANGED sbUser

\* onAuthStateChange with a user: sb.user is set, then queueSyncSoon(50).
signInThenQueue ==
  /\ fnOut.nextTimeout <= MaxTimeouts
  /\ sbUser' = TRUE
  /\ fnOut' =
       Timers((IF fnOut.syncTimer # 0
               THEN clearTimeout(fnOut.timeouts, fnOut.syncTimer)
               ELSE fnOut.timeouts)
                \cup {[id |-> fnOut.nextTimeout, ms |-> 50]},
              fnOut.nextTimeout, fnOut.nextTimeout + 1,
              fnOut.requested + 1, fnOut.invoked)

\* onAuthStateChange without a user: no timer is touched.
signOutKeepsTimer ==
  /\ sbUser
  /\ sbUser' = FALSE
  /\ UNCHANGED fnOut

\* A timeout fires: the callback clears the handle and invokes fullSync.
syncTimerCallback(x) ==
  /\ x \in fnOut.timeouts
  /\ fnOut' = Timers(fnOut.timeouts \ {x}, 0, fnOut.nextTimeout, 0,
                     fnOut.invoked + 1)
  /\ UNCHANGED sbUser

\* The delays the callers pass: sign-in and sync-now 50, sbUpsertSoon 250,
\* the default 500.
DebounceDelays == {50, 250, 500}

DebounceNext ==
  /\ \/ \E ms \in DebounceDelays : queueSyncSoonCall(ms)
     \/ signInThenQueue
     \/ signOutKeepsTimer
     \/ \E x \in fnOut.timeouts : syncTimerCallback(x)
  /\ UNCHANGED <<ledgerVars, gardenVars, settingVars, syncTimer, passVars,
                 remoteVars, sessionDeletes, nextId, opsLeft, ret, fnIn>>

InitDebounce ==
  /\ InitApp
  /\ opsLeft = 0
  /\ fnIn = 0
  /\ fnOut = Timers({}, 0, 1, 0, 0)

SpecDebounce == InitDebounce /\ [][DebounceNext]_vars

(* --------------------------- the pull merges -------------------------- *)

\* The sequences over S of at most n elements.
SeqsUpTo(S, n) == UNION {[1..k -> S] : k \in 0..n}

\* Local sessions as the ledger may hold them: recorded here (clientId set
\* or not yet) and of any order, since an imported ledger is taken as it is.
MergeLocalSessions ==
  [id : {1, 2}, clientId : {0, 1, 2}, endTs : {1, 2}, durationSec : {60}]

\* Rows of table sessions as the select returns them: one row for a
\* client_id, ordered by ended_at descending.
MergeSessionRows ==
  [client_id : {1, 2, 3}, ended_at : {1, 2}, duration_sec : {120}]

MergeSessionData ==
  {d \in SeqsUpTo(MergeSessionRows, MaxMergeLen) :
     \A i, j \in 1..Len(d) :
       i < j => /\ d[i].client_id # d[j].client_id
                /\ d[i].ended_at >= d[j].ended_at}

ApplyMergeSessions ==
  /\ fnOut = NoResult
  /\ fnOut' = [fn |-> "mergeSessions",
               merged |-> mergeSessions(fnIn.local, fnIn.data)]
  /\ UNCHANGED <<ledgerVars, gardenVars, settingVars, sbUser, syncTimer,
                 passVars, remoteVars, sessionDeletes, nextId, opsLeft, ret,
                 fnIn>>

SpecMergeSessions ==
  /\ \E local \in SeqsUpTo(MergeLocalSessions, MaxMergeLen),
        data \in MergeSessionData :
       InitPure([local |-> local, data |-> data])
  /\ [][ApplyMergeSessions]_vars

\* Labels with identifiers of their own, as uid('lbl') gives them, and rows
\* of table labels, one for a local_id.
MergeLabelIds == {201, 202, 203}

MergeLocalLabels ==
  {l \in SeqsUpTo([id : MergeLabelIds, name : {"Maths", "Art"}], MaxMergeLen) :
     \A i, j \in 1..Len(l) : i # j => l[i].id # l[j].id}

MergeLabelData ==
  {d \in SeqsUpTo([local_id : MergeLabelIds, name : {"Maths", "Physics"}],
                  MaxMergeLen) :
     \A i, j \in 1..Len(d) : i # j => d[i].local_id # d[j].local_id}

MergeQueues ==
  {q \in SeqsUpTo(MergeLabelIds, MaxMergeLen) :
     \A i, j \in 1..Len(q) : i # j => q[i] # q[j]}

ApplyMergeLabels ==
  /\ fnOut = NoResult
  /\ fnOut' = [fn |-> "mergeLabels",
               merged |-> mergeLabels(fnIn.local, fnIn.data, fnIn.queue)]
  /\ UNCHANGED <<ledgerVars, gardenVars, settingVars, sbUser, syncTimer,
                 passVars, remoteVars, sessionDeletes, nextId, opsLeft, ret,
                 fnIn>>

SpecMergeLabels ==
  /\ \E local \in MergeLocalLabels, data \in MergeLabelData,
        queue \in MergeQueues :
       InitPure([local |-> local, data |-> data, queue |-> queue])
  /\ [][ApplyMergeLabels]_vars

(* --------------------------- the storage wrapper ---------------------- *)

STORAGE_KEY == "bloomora_v1"

CUSTOM_BG_KEY == "bloomora_custom_bg_v1"

StorageKeys == {STORAGE_KEY, CUSTOM_BG_KEY}

UpperCase == "ABCDEFGHIJKLMNOPQRSTUVWXYZ"

LowerCase == "abcdefghijklmnopqrstuvwxyz"

\* One character with its case folded, as the i flag of a pattern does.
FoldChar(c) ==
  IF \E i \in 1..Len(UpperCase) : SubSeq(UpperCase, i, i) = c
  THEN LET i == CHOOSE j \in 1..Len(UpperCase) : SubSeq(UpperCase, j, j) = c
       IN  SubSeq(LowerCase, i, i)
  ELSE c

RECURSIVE Fold(_)
Fold(text) ==
  IF text = "" THEN ""
  ELSE FoldChar(SubSeq(text, 1, 1)) \o Fold(SubSeq(text, 2, Len(text)))

\* /pat/i.test(text) for a pattern of plain letters.
TestI(pat, text) ==
  LET folded == Fold(text)
      wanted == Fold(pat)
  IN  \E i \in 1..(Len(text) - Len(pat) + 1) :
        SubSeq(folded, i, i + Len(pat) - 1) = wanted

\* The test setItem's catch block applies to the error it caught.
isQuota(e) == TestI("QuotaExceeded", e.name) \/ TestI("quota", e.message)

NoError == [name |-> "", message |-> ""]

\* What window.localStorage may throw: the quota error under its standard
\* name, a quota error that only its message identifies, and refusals of
\* access.
QuotaErrors ==
  { [name |-> "QuotaExceededError",
     message |-> "Failed to execute 'setItem' on 'Storage'"],
    [name |-> "NS_ERROR_DOM_QUOTA_REACHED",
     message |-> "The quota has been exceeded."] }

AccessErrors ==
  { [name |-> "SecurityError", message |-> "The operation is insecure."],
    [name |-> "InvalidStateError", message |-> ""] }

\* The outcomes of one call of window.localStorage: it works or it throws.
Outcomes == {NoError} \cup QuotaErrors \cup AccessErrors

\* A call of the wrapper: what it was, what the platform threw and what the
\* wrapper handed back to its caller.
Call(op, key, e, value) ==
  [op |-> op, key |-> key, threw |-> e,
   result |-> [threw |-> FALSE, value |-> value]]

\* The wrapper's state: the flag, the stored entries and the last call.
Storage(blocked, store, call) ==
  [fn |-> "storage", storageBlocked |-> blocked, localStorage |-> store,
   call |-> call]

\* The in-memory state in the shape saveState serialises.
MemoryState ==
  [extra |-> {},
   profile |-> [theme |-> JStr(profile.theme)],
   sessions |-> JArr(sessions),
   island |-> [xpSec |-> JNum(islandXpSec)],
   garden |-> [treeType |-> JStr(treeType),
               growthSec |-> JNum(gardenGrowthSec),
               harvestedOnThisTree |-> JNum(harvestedOnThisTree)],
   fruitCollection |-> [k \in FruitKinds |-> JNum(fruitCollection[k])],
   labels |-> [items |-> JArr(labels)]]

\* Everything outside the wrapper.
appVars == <<ledgerVars, gardenVars, settingVars, sbUser, syncTimer, passVars,
             remoteVars, sessionDeletes, nextId, opsLeft, ret, fnIn>>

getItem(key, e) ==
  /\ fnOut' =
       IF e = NoError
       THEN Storage(fnOut.storageBlocked, fnOut.localStorage,
                    Call("getItem", key, e, fnOut.localStorage[key]))
       ELSE Storage(TRUE, fnOut.localStorage,
                    Call("getItem", key, e, RawAbsent))
  /\ UNCHANGED appVars

\* Variant: every failure of a write sets the flag.
setItem_alwaysBlocks(key, value, e) ==
  /\ fnOut' =
       IF e = NoError
       THEN Storage(fnOut.storageBlocked,
                    [fnOut.localStorage EXCEPT ![key] = value],
                    Call("setItem", key, e, RawAbsent))
       ELSE Storage(TRUE, fnOut.localStorage,
                    Call("setItem", key, e, RawAbsent))
  /\ UNCHANGED appVars

setItem(key, value, e) ==
  /\ fnOut' =
       IF e = NoError
       THEN Storage(fnOut.storageBlocked,
                    [fnOut.localStorage EXCEPT ![key] = value],
                    Call("setItem", key, e, RawAbsent))
       ELSE Storage(IF isQuota(e) THEN fnOut.storageBlocked ELSE TRUE,
                    fnOut.localStorage,
                    Call("setItem", key, e, RawAbsent))
  /\ UNCHANGED appVars

removeItem(key, e) ==
  /\ fnOut' =
       IF e = NoError
       THEN Storage(fnOut.storageBlocked,
                    [fnOut.localStorage EXCEPT ![key] = RawAbsent],
                    Call("removeItem", key, e, RawAbsent))
       ELSE Storage(TRUE, fnOut.localStorage,
                    Call("removeItem", key, e, RawAbsent))
  /\ UNCHANGED appVars

saveState(e) == setItem(STORAGE_KEY, savedState(MemoryState), e)

\* The values written under the keys other than through saveState: a data
\* URL under the background key.
StoredValues == {RawGarbage}

\* The application with some progress in memory and nothing stored.
InitStorage ==
  /\ \E h \in {0, 120} :
       /\ sessions = IF h = 0 THEN << >>
                     ELSE << [id |-> 1, clientId |-> 1, endTs |-> 1,
                              durationSec |-> h] >>
       /\ islandXpSec = h
       /\ gardenGrowthSec = h
  /\ \E type \in {"Apple", "Orange"} : treeType = type
  /\ harvestedOnThisTree = 0
  /\ fruitCollection = EmptyFruitCollection
  /\ labels = << >>
  /\ profile = [theme |-> "midnight"]
  /\ sbUser = FALSE
  /\ syncing = FALSE
  /\ syncTimer = 0
  /\ syncPc = "idle"
  /\ rpc = NoCall
  /\ forcePushOnce = FALSE
  /\ deletedLabelIds = << >>
  /\ remoteProfile = NoRow
  /\ remoteLabels = {}
  /\ remoteSessions = {}
  /\ sessionDeletes = {}
  /\ labelDeletes = {}
  /\ nextId = 2
  /\ opsLeft = 0
  /\ ret = [op |-> "init", arg |-> 0, ok |-> TRUE, id |-> 0, pre |-> NoPre,
            undo |-> FALSE]
  /\ fnIn = 0
  /\ fnOut = Storage(FALSE, [k \in StorageKeys |-> RawAbsent],
                     Call("none", "", NoError, RawAbsent))

StorageNext ==
  \/ \E key \in StorageKeys, e \in Outcomes : getItem(key, e)
  \/ \E key \in StorageKeys, value \in StoredValues, e \in Outcomes :
       setItem(key, value, e)
  \/ \E key \in StorageKeys, e \in Outcomes : removeItem(key, e)
  \/ \E e \in Outcomes : saveState(e)

SpecStorage == InitStorage /\ [][StorageNext]_vars

(* ------------------------------ properties ---------------------------- *)

\* C1: saveSession adds a session to the ledger and returns success exactly
\* when the rounded duration is at least 60 s (the duration is at least
\* 59.5 s, that is 119 half seconds); otherwise it returns failure, the
\* ledger and both counters are as before, and no reconciliation is
\* scheduled or started.
C1_SaveSessionIffOneMinute ==
  [][ret'.op = "saveSession" =>
       IF ret'.arg + 1 >= 2 * 60
       THEN /\ ret'.ok
            /\ Len(sessions') = Len(sessions) + 1
            /\ Tail(sessions') = sessions
       ELSE /\ ~ret'.ok
            /\ sessions' = sessions
            /\ islandXpSec' = islandXpSec
            /\ gardenGrowthSec' = gardenGrowthSec
            /\ syncTimer' = syncTimer
            /\ syncing' = syncing
            /\ rpc' = rpc]_vars

\* A 59 s session was refused while signed in, with a ledger that is not
\* empty; the timer is the one the sign-in set.
C1_Witness ==
  /\ ret.op = "saveSession"
  /\ ~ret.ok
  /\ ret.arg = 118
  /\ sbUser
  /\ syncTimer = 50
  /\ sessions # << >>

\* C2: in every reachable state the Island counter is the sum of the
\* durations of the ledger.
C2_XpIsLedgerSum == islandXpSec = SumDur(sessions)

\* C3: every session of the ledger is at least 60 s long, whichever
\* operation put it there.
C3_StoredSessionsAtLeastOneMinute ==
  \A i \in 1..Len(sessions) : sessions[i].durationSec >= 60

\* C4: a record or a delete that starts with equal counters ends with equal
\* counters, so the counters stay equal along any sequence of the two.
C4_CountersStayEqual ==
  [][/\ ret'.op \in {"saveSession", "deleteSessionById"}
     /\ islandXpSec = gardenGrowthSec
     => islandXpSec' = gardenGrowthSec']_vars

\* A delete removed a session and left equal counters above zero.
C4_Witness ==
  /\ ret.op = "deleteSessionById"
  /\ ret.ok
  /\ ret.pre.xpSec = ret.pre.growthSec
  /\ islandXpSec = gardenGrowthSec
  /\ islandXpSec > 0

\* C5: both counters are never negative, whatever records, deletes, tree
\* restarts and resets came before.
C5_CountersNonNegative == islandXpSec >= 0 /\ gardenGrowthSec >= 0

\* A delete removed a session longer than the growth the tree had: the
\* growth stopped at zero.
C5_Witness ==
  /\ ret.op = "deleteSessionById"
  /\ ret.ok
  /\ ret.pre.growthSec < SumDur(ret.pre.sessions) - SumDur(sessions)
  /\ gardenGrowthSec = 0

\* C6: deleting the session that the operation right before recorded gives
\* back the ledger and both counters the record started from.
C6_RecordThenDeleteRestores ==
  [][/\ ret'.op = "deleteSessionById"
     /\ ret'.undo
     /\ ret.pre.xpSec >= 0
     /\ ret.pre.growthSec >= 0
     => /\ sessions' = ret.pre.sessions
        /\ islandXpSec' = ret.pre.xpSec
        /\ gardenGrowthSec' = ret.pre.growthSec]_vars

\* A session was recorded on top of an older one after a tree restart and
\* deleted at once.
C6_Witness ==
  /\ ret.op = "deleteSessionById"
  /\ ret.undo
  /\ sessions # << >>
  /\ islandXpSec # gardenGrowthSec

\* C7: deleteSessionById with the identifier of a stored session removes
\* exactly that session, lowers both counters by its duration but not below
\* zero and leaves the fruit collection and the harvest count alone; with an
\* identifier that is empty or not stored it returns false, changes nothing
\* and sends no remote delete.
C7_DeleteRemovesExactlyOne ==
  [][ret'.op = "deleteSessionById" =>
       LET id == ret'.arg
           hits == {i \in 1..Len(sessions) : sessions[i].id = id}
       IN  IF id # 0 /\ hits # {}
           THEN /\ ret'.ok
                /\ \E i \in hits :
                     /\ sessions' = SubSeq(sessions, 1, i - 1)
                                      \o SubSeq(sessions, i + 1, Len(sessions))
                     /\ islandXpSec' =
                          IF islandXpSec >= sessions[i].durationSec
                          THEN islandXpSec - sessions[i].durationSec ELSE 0
                     /\ gardenGrowthSec' =
                          IF gardenGrowthSec >= sessions[i].durationSec
                          THEN gardenGrowthSec - sessions[i].durationSec
                          ELSE 0
                /\ fruitCollection' = fruitCollection
                /\ harvestedOnThisTree' = harvestedOnThisTree
           ELSE /\ ~ret'.ok
                /\ UNCHANGED <<ledgerVars, gardenVars, sessionDeletes>>]_vars

\* A session was deleted from a ledger of two after a harvest.
C7_Witness ==
  /\ ret.op = "deleteSessionById"
  /\ ret.ok
  /\ Len(ret.pre.sessions) = 2
  /\ harvestedOnThisTree > 0

\* C8: resetStats empties the ledger, zeroes both counters, the harvest
\* count and every fruit count, and leaves the labels, the profile settings
\* and the tree type as they were.
C8_ResetClearsProgressOnly ==
  [][ret'.op = "resetStats" =>
       /\ sessions' = << >>
       /\ islandXpSec' = 0
       /\ gardenGrowthSec' = 0
       /\ harvestedOnThisTree' = 0
       /\ \A k \in FruitKinds : fruitCollection'[k] = 0
       /\ labels' = labels
       /\ profile' = profile
       /\ treeType' = treeType]_vars

\* A reset ran on a ledger that was not empty, after a harvest.
C8_Witness ==
  /\ ret.op = "resetStats"
  /\ ret.pre.sessions # << >>
  /\ ret.pre.harvested > 0
  /\ \E k \in FruitKinds : ret.pre.fruits[k] > 0

\* C9: the level does not decrease when the xp grows by a second; at k whole
\* levels of xp the level is k; the in-level percentage is within 0..99 and
\* the remaining seconds within 1..LEVEL_SEC.
C9_LevelMonotoneAndBounded ==
  fnOut.fn = "computeLevel" =>
    /\ fnOut.at.level <= fnOut.succ.level
    /\ \A k \in 0..(MaxLevelIn \div LEVEL_SEC) :
         fnIn = k * LEVEL_SEC => fnOut.at.level = k
    /\ fnOut.at.pct \in 0..99
    /\ fnOut.at.remainingSec \in 1..LEVEL_SEC

\* computeLevel was applied to the last second of level 1.
C9_Witness ==
  /\ fnOut.fn = "computeLevel"
  /\ fnIn = 2 * LEVEL_SEC - 1
  /\ fnOut.at.level = 1
  /\ fnOut.succ.level = 2
  /\ fnOut.at.pct = 99
  /\ fnOut.at.remainingSec = 1

\* C10: the current stage is the highest one whose minSec the growth has
\* reached and its index does not decrease when the growth grows by a
\* second; next is null exactly at the last stage; otherwise percentToNext
\* is the floor of 100 times the fraction of the way to the next stage.
C10_StageAndPercent ==
  fnOut.fn = "getTreeStage" =>
    LET reached == {i \in 1..Len(TREE_STAGES) : TREE_STAGES[i].minSec <= fnIn}
        top == CHOOSE i \in reached : \A j \in reached : j <= i
        r == fnOut.at
    IN  /\ r.current = top
        /\ r.current <= fnOut.succ.current
        /\ (r.next = 0) <=> (r.current = Len(TREE_STAGES))
        /\ r.next # 0 =>
             r.pct = ((fnIn - TREE_STAGES[r.current].minSec) * 100)
                       \div (TREE_STAGES[r.next].minSec
                               - TREE_STAGES[r.current].minSec)

\* C11: computeFruitsReady is 0 below the mature threshold of 7200 s and
\* otherwise the whole half hours past it minus the fruits already
\* harvested, but not below 0; it is never negative and does not decrease
\* when the growth grows by a second.
C11_FruitsReady ==
  fnOut.fn = "computeFruitsReady" =>
    LET g == fnIn.growthSec
        due == (g - 7200) \div 1800 - fnIn.harvested
    IN  /\ fnOut.at = IF g < 7200 THEN 0
                      ELSE IF due >= 0 THEN due ELSE 0
        /\ fnOut.at >= 0
        /\ fnOut.at <= fnOut.succ

\* Two fruit periods past the threshold with nothing harvested: 2 ready.
C11_Witness ==
  /\ fnOut.fn = "computeFruitsReady"
  /\ fnIn.growthSec = 7200 + 2 * 1800
  /\ fnIn.harvested = 0
  /\ fnOut.at = 2

\* C12: a harvest with r > 0 fruits ready adds r to the count of the current
\* tree type and to harvestedOnThisTree, after which no fruit is ready, and
\* leaves the growth, the xp, the tree type, the other fruit counts and the
\* ledger alone; with no fruit ready it changes nothing.
C12_HarvestCollectsReadyFruits ==
  [][ret'.op = "harvestFruits" =>
       LET r == computeFruitsReady(gardenGrowthSec, harvestedOnThisTree)
       IN  IF r > 0
           THEN /\ fruitCollection' =
                     [k \in FruitKinds |->
                        IF k = treeType THEN fruitCollection[k] + r
                        ELSE fruitCollection[k]]
                /\ harvestedOnThisTree' = harvestedOnThisTree + r
                /\ computeFruitsReady(gardenGrowthSec',
                                      harvestedOnThisTree') = 0
                /\ UNCHANGED <<ledgerVars, treeType>>
           ELSE UNCHANGED <<ledgerVars, gardenVars>>]_vars

\* A second harvest right after a first one on an Orange tree found nothing
\* to collect.
C12_Witness ==
  /\ ret.op = "harvestFruits"
  /\ ~ret.ok
  /\ treeType = "Orange"
  /\ fruitCollection["Orange"] > 0
  /\ harvestedOnThisTree = fruitCollection["Orange"]

\* C13 as stated: restartTree(newType) sets the tree type to newType, the
\* growth and the harvest count to 0, and leaves the fruit collection, the
\* xp and the ledger alone.
C13_RestartSetsType ==
  [][ret'.op = "restartTree" =>
       /\ treeType' = ret'.arg
       /\ gardenGrowthSec' = 0
       /\ harvestedOnThisTree' = 0
       /\ UNCHANGED <<fruitCollection, islandXpSec, sessions>>]_vars

\* C13 as the code has it: the tree type becomes newType when newType is not
\* empty and stays what it was otherwise; the rest as stated.
C13_RestartSetsGivenType ==
  [][ret'.op = "restartTree" =>
       /\ treeType' = IF ret'.arg # "" THEN ret'.arg ELSE treeType
       /\ gardenGrowthSec' = 0
       /\ harvestedOnThisTree' = 0
       /\ UNCHANGED <<fruitCollection, islandXpSec, sessions>>]_vars

\* An Orange tree with a recorded session was restarted with no type
\* selected.
C13_Witness ==
  /\ ret.op = "restartTree"
  /\ ret.arg = ""
  /\ treeType = "Orange"
  /\ gardenGrowthSec = 0
  /\ islandXpSec > 0

\* The seconds of the sessions of ledger ss that ended on day d.
RECURSIVE C14_DaySeconds(_, _)
C14_DaySeconds(ss, d) ==
  IF ss = << >> THEN 0
  ELSE (IF Head(ss).endTs \div TicksPerDay = d THEN Head(ss).durationSec
        ELSE 0)
       + C14_DaySeconds(Tail(ss), d)

\* C14: a day qualifies when its sessions sum to at least 60 s; current is
\* the length of the run of consecutive qualifying days that ends today, 0
\* when today does not qualify; longest is the length of the longest run of
\* consecutive qualifying days.
C14_StreakIsRunOfQualifyingDays ==
  fnOut.fn = "computeStreak" =>
    LET ss == fnIn.sessions
        today == fnIn.now \div TicksPerDay
        Lengths == 0..(MaxDay + 2)
        Days == (0 - 1)..(MaxDay + 2)
        qualifies == [d \in (0 - MaxDay - 3)..(MaxDay + 2) |->
                        C14_DaySeconds(ss, d) >= 60]
        Run(d, n) == \A i \in 0..(n - 1) : qualifies[d - i]
    IN  /\ fnOut.at.current \in Lengths
        /\ Run(today, fnOut.at.current)
        /\ ~qualifies[today - fnOut.at.current]
        /\ fnOut.at.longest \in Lengths
        /\ \E d \in Days : Run(d, fnOut.at.longest)
        /\ \A d \in Days, n \in Lengths : Run(d, n) => n <= fnOut.at.longest

\* Days 1 and 2 qualify, day 1 by two sessions of 30 s, day 0 does not, and
\* the streak is read on day 2.
C14_Witness ==
  /\ fnOut.fn = "computeStreak"
  /\ fnIn.now \div TicksPerDay = 2
  /\ C14_DaySeconds(fnIn.sessions, 2) = 60
  /\ C14_DaySeconds(fnIn.sessions, 1) = 60
  /\ Len(fnIn.sessions) = 3
  /\ fnOut.at.current = 2
  /\ fnOut.at.longest = 2

\* C15: loadState does not throw and returns the default state (any index
\* keys copied from the parsed value aside) for a missing key, for a text
\* that is not JSON and for JSON that is not an object.
C15_LoadFallsBackToDefault ==
  /\ fnOut.fn = "loadState"
  /\ fnIn.kind = "json" => fnIn.value.t # "object"
  => /\ ~fnOut.at.threw
     /\ [fnOut.at.state EXCEPT !.extra = {}] = DefaultLoaded

\* C16: saving the state that loadState returned and loading it again gives
\* the same state, and loading the saved default state gives the default
\* state.
C16_LoadIsIdempotent ==
  fnOut.fn = "loadState" /\ ~fnOut.at.threw =>
    /\ fnOut.again = fnOut.at
    /\ fnIn = RawAbsent => fnOut.again = Returned(DefaultLoaded)


\* C17: the flag becomes true exactly on a failure that is not a quota
\* failure of a write (a read or a removal that fails always sets it), it
\* never returns to false, a write is attempted whatever the flag says and
\* stores its value when the platform accepts it, no call of the wrapper
\* lets the error through, and the in-memory state is the same after a
\* save, failed or not.
C17_StorageFlag ==
  [][fnOut'.fn = "storage" /\ fnOut' # fnOut =>
       LET c == fnOut'.call
           failed == c.threw # NoError
           quotaWrite == c.op = "setItem" /\ c.threw \in QuotaErrors
       IN  /\ fnOut'.storageBlocked =
                (fnOut.storageBlocked \/ (failed /\ ~quotaWrite))
           /\ ~c.result.threw
           /\ failed => fnOut'.localStorage = fnOut.localStorage
           /\ c.op = "setItem" /\ ~failed =>
                fnOut'.localStorage[c.key] # RawAbsent
           /\ appVars' = appVars]_vars

\* With a save stored, a write fails on quota and the flag stays down.
C17_Witness ==
  /\ fnOut.fn = "storage"
  /\ ~fnOut.storageBlocked
  /\ fnOut.call.op = "setItem"
  /\ fnOut.call.threw \in QuotaErrors
  /\ islandXpSec = 120
  /\ fnOut.localStorage[STORAGE_KEY] = savedState(MemoryState)


\* Some part of the text between whitespace: r is text without a run of
\* whitespace at its start and one at its end, and r itself neither starts
\* nor ends with whitespace.
C18_IsTrimOf(r, text) ==
  \E i \in 1..(Len(text) + 1), j \in 0..Len(text) :
    /\ r = SubSeq(text, i, j)
    /\ \A k \in 1..(i - 1) : SubSeq(text, k, k) \in {" ", "\t"}
    /\ \A k \in (j + 1)..Len(text) : SubSeq(text, k, k) \in {" ", "\t"}
    /\ r # "" => /\ SubSeq(r, 1, 1) \notin {" ", "\t"}
                 /\ SubSeq(r, Len(r), Len(r)) \notin {" ", "\t"}

\* C18: createLabel refuses a name that is empty or only whitespace, leaving
\* the labels and the sync timer as they were; any other name adds exactly
\* one label at the end, named by the first 24 characters of the trimmed
\* input, whether or not a label of that name exists already.
C18_CreateLabel ==
  [][ret'.op = "createLabel" =>
       LET name == ret'.arg
           blank == \A k \in 1..Len(name) : SubSeq(name, k, k) \in {" ", "\t"}
       IN  IF blank
           THEN ~ret'.ok /\ labels' = labels /\ syncTimer' = syncTimer
           ELSE /\ ret'.ok
                /\ Len(labels') = Len(labels) + 1
                /\ SubSeq(labels', 1, Len(labels)) = labels
                /\ \E r \in {SubSeq(name, i, j) :
                               i \in 1..Len(name), j \in 1..Len(name)} :
                     /\ C18_IsTrimOf(r, name)
                     /\ labels'[Len(labels')].name =
                          SubSeq(r, 1, IF Len(r) < 24 THEN Len(r) ELSE 24)
                /\ Len(labels'[Len(labels')].name) <= 24]_vars

\* Two labels of the same name, the second created from a padded input.
C18_Witness ==
  /\ ret.op = "createLabel" /\ ret.ok
  /\ Len(labels) = 2
  /\ labels[1].name = labels[2].name
  /\ ret.arg = "  Maths "


\* C19: an identifier leaves the tombstone queue only in the step that
\* resumes from a remote delete which included it and succeeded: the
\* immediate delete of deleteLabel for that identifier, or the flush of a
\* reconciliation pass whose request listed it.
C19_TombstoneLeavesOnConfirmedDelete ==
  [][\A id \in SeqToSet(deletedLabelIds) \ SeqToSet(deletedLabelIds') :
       \/ /\ ret'.op = "sbQueueDeleteLabel"
          /\ ret'.ok
          /\ ret'.arg = id
       \/ /\ ret'.op = "fullSync"
          /\ ret'.arg = 1
          /\ ret'.ok
          /\ syncPc = "flush"
          /\ rpc.st = "done"
          /\ id \in SeqToSet(rpc.res.ids)]_vars


\* C20: when the label select of a pass resumes and merges, every label of
\* the result whose identifier is in the tombstone queue at that moment was
\* in the local set before, unchanged: no remote row with a queued
\* identifier is added or written over a local label.
C20_PullDoesNotResurrect ==
  [][ret'.op = "fullSync" /\ ret'.arg = 3 /\ syncPc = "pullLabels" =>
       \A i \in 1..Len(labels') :
         labels'[i].id \in SeqToSet(deletedLabelIds) =>
           \E j \in 1..Len(labels) : labels[j] = labels'[i]]_vars

\* The label select has resumed with success while the remote store holds a
\* row whose identifier is queued, and no local label has that identifier.
C20_Witness ==
  /\ ret.op = "fullSync" /\ ret.arg = 3 /\ ret.ok
  /\ \E r \in remoteLabels :
       /\ r.local_id \in SeqToSet(deletedLabelIds)
       /\ \A i \in 1..Len(labels) : labels[i].id # r.local_id


\* C21: after the session merge of a pull, every key (clientId, or id where
\* there is none) held locally is in the result once, with a local session
\* of that key, unchanged; a session that was not local is the image of a
\* pulled row whose client_id no local session has; and the result is in
\* descending order of endTs.
C21_SessionPullPrecedence ==
  fnOut.fn = "mergeSessions" =>
    LET local == fnIn.local
        data == fnIn.data
        m == fnOut.merged
        key(s) == IF s.clientId # 0 THEN s.clientId ELSE s.id
        locals == {local[i] : i \in 1..Len(local)}
        localKeys == {key(s) : s \in locals}
        image(r) == [id |-> r.client_id, clientId |-> r.client_id,
                     endTs |-> r.ended_at, durationSec |-> r.duration_sec]
    IN  /\ \A k \in localKeys :
             /\ Cardinality({j \in 1..Len(m) : key(m[j]) = k}) = 1
             /\ \A j \in 1..Len(m) : key(m[j]) = k => m[j] \in locals
        /\ \A j \in 1..Len(m) :
             m[j] \notin locals =>
               /\ key(m[j]) \notin localKeys
               /\ \E i \in 1..Len(data) : m[j] = image(data[i])
        /\ \A i, j \in 1..Len(m) : i < j => m[i].endTs >= m[j].endTs

\* The pull returned a row for a key held locally and a row for a key that
\* is not, and the local ledger was not in order.
C21_Witness ==
  /\ fnOut.fn = "mergeSessions"
  /\ Len(fnIn.local) = 2 /\ Len(fnIn.data) = 2
  /\ fnIn.local[1].endTs < fnIn.local[2].endTs
  /\ fnIn.local[1].clientId = 1 /\ fnIn.local[2].clientId = 2
  /\ fnIn.data[1].client_id = 3 /\ fnIn.data[2].client_id = 1
  /\ Len(fnOut.merged) = 3


\* C22: after the label merge of a pull, a local label whose identifier is
\* among the pulled rows that passed the tombstone filter has been replaced
\* by the image of that row, and every other local label is still there,
\* unchanged; no identifier is in the result twice.
C22_LabelPullMerge ==
  fnOut.fn = "mergeLabels" =>
    LET local == fnIn.local
        m == fnOut.merged
        queued == {fnIn.queue[i] : i \in 1..Len(fnIn.queue)}
        rows == {fnIn.data[i] : i \in 1..Len(fnIn.data)}
        kept == {r \in rows : r.local_id \notin queued}
        result == {m[j] : j \in 1..Len(m)}
    IN  /\ \A i \in 1..Len(local) :
             IF \E r \in kept : r.local_id = local[i].id
             THEN \A r \in kept :
                    r.local_id = local[i].id =>
                      /\ [id |-> r.local_id, name |-> r.name] \in result
                      /\ \A x \in result :
                           x.id = r.local_id => x.name = r.name
             ELSE local[i] \in result
        /\ \A i, j \in 1..Len(m) : i # j => m[i].id # m[j].id

\* A row replaced a local label of another name while a second local
\* label, which no row named, stayed.
C22_Witness ==
  /\ fnOut.fn = "mergeLabels"
  /\ fnIn.queue = << >>
  /\ fnIn.local = << [id |-> 201, name |-> "Maths"],
                     [id |-> 202, name |-> "Art"] >>
  /\ fnIn.data = << [local_id |-> 201, name |-> "Physics"],
                    [local_id |-> 203, name |-> "Maths"] >>
  /\ Len(fnOut.merged) = 3


\* C23: the flag sb.syncing is up exactly while a pass is suspended at a
\* remote call; the timer's call of fullSync starts a pass only when none
\* is in flight, and when one is it returns having issued no call and
\* changed nothing but the timer it came from.
C23_OnePassAtATime ==
  [][/\ syncing' <=> syncPc' # "idle"
     /\ syncTimer # 0 /\ syncTimer' = 0 =>
          IF syncing \/ syncPc # "idle"
          THEN /\ ~ret'.ok
               /\ <<syncing, syncPc, rpc, forcePushOnce, deletedLabelIds>>'
                    = <<syncing, syncPc, rpc, forcePushOnce, deletedLabelIds>>
               /\ <<sessions, islandXpSec, gardenGrowthSec, treeType,
                    harvestedOnThisTree, fruitCollection, labels, profile>>'
                    = <<sessions, islandXpSec, gardenGrowthSec, treeType,
                        harvestedOnThisTree, fruitCollection, labels, profile>>
               /\ <<remoteProfile, remoteLabels, remoteSessions>>'
                    = <<remoteProfile, remoteLabels, remoteSessions>>
          ELSE sbUser => syncing' \/ ~sbUser']_vars

\* The timer fired for someone signed in while a pass was awaiting an
\* answer.
C23_Witness ==
  /\ ret.op = "fullSync" /\ ret.arg = 0 /\ ~ret.ok
  /\ sbUser
  /\ syncing
  /\ rpc.st = "sent"


\* C24: when a sync has been requested while a pass is in flight (the timer
\* is armed and sb.syncing is up), someone is signed in and the user does
\* nothing more, a new pass eventually starts.
C24_RequestDuringPassLeadsToPass ==
  (syncing /\ syncTimer # 0 /\ sbUser /\ opsLeft = 0)
    ~> (ret.op = "fullSync" /\ ret.arg = 0 /\ ret.ok)


\* C25: at most one timeout is armed, and one is armed exactly when someone
\* signed in has asked for a sync since fullSync was last invoked; a request
\* made while signed in leaves the new timeout as the only one, a request
\* made while signed out arms nothing; and the firing of the timeout is one
\* invocation of fullSync that answers all the requests made before it.
C25_DebounceCoalesces ==
  [][fnOut'.fn = "timers" =>
       /\ Cardinality(fnOut'.timeouts) <= 1
       /\ fnOut'.requested > 0 <=> fnOut'.timeouts # {}
       /\ fnOut'.syncTimer # 0 <=> fnOut'.timeouts # {}
       /\ fnOut'.nextTimeout > fnOut.nextTimeout =>
            /\ sbUser'
            /\ fnOut'.timeouts =
                 {x \in fnOut'.timeouts : x.id = fnOut.nextTimeout}
            /\ fnOut'.timeouts # {}
            /\ fnOut'.invoked = fnOut.invoked
       /\ fnOut'.invoked # fnOut.invoked =>
            /\ fnOut'.invoked = fnOut.invoked + 1
            /\ fnOut.requested >= 1
            /\ fnOut'.timeouts = {}
       /\ ~sbUser /\ ~sbUser' => fnOut'.timeouts = fnOut.timeouts
                                   \/ fnOut'.invoked # fnOut.invoked]_vars

\* Three requests were made before the timeout fired, and fullSync has been
\* invoked once.
C25_Witness ==
  /\ fnOut.fn = "timers"
  /\ fnOut.nextTimeout = 4
  /\ fnOut.invoked = 1
  /\ fnOut.timeouts = {}


C27_ImportForcesPush ==
  [][ret'.op = "importStateFromFile" /\ ret'.ok =>
       /\ \E f \in ImportFiles :
            /\ f.valid
            /\ sessions' = f.sessions
            /\ labels' = f.labels
            /\ islandXpSec' = f.xpSec
            /\ gardenGrowthSec' = f.growthSec
       /\ forcePushOnce']_vars


\* C28: while the local state is the one a backup file brought and the
\* remote store holds none of the file's sessions yet, no step of a pass
\* changes the ledger, the labels or the counters: nothing pulled is merged
\* into the imported state before it has been pushed.
C28_NoMergeBeforeImportPushed ==
  [][(\E f \in ImportFiles :
        /\ f.valid
        /\ sessions = f.sessions
        /\ labels = f.labels
        /\ islandXpSec = f.xpSec
        /\ gardenGrowthSec = f.growthSec
        /\ \A i \in 1..Len(f.sessions) :
             \A r \in remoteSessions : r.client_id # f.sessions[i].id)
     /\ ret'.op = "fullSync"
     => /\ labels' = labels
        /\ \A i \in 1..Len(sessions') : \E j \in 1..Len(sessions) :
             sessions'[i].id = sessions[j].id
        /\ islandXpSec' = islandXpSec
        /\ gardenGrowthSec' = gardenGrowthSec]_vars


C30_FailureIsolation ==
  [][/\ syncPc \in {"pullProfile", "pullLabels", "pullSessions",
                    "pushProfile", "pushLabels", "pushSessions"}
     /\ rpc.st = "done"
     /\ rpc.res.error
     /\ sbUser
     /\ ret'.op = "fullSync"
     /\ ret'.arg # 0
     => /\ syncPc' =
             CASE syncPc = "pullProfile" -> "pullLabels"
               [] syncPc = "pullLabels" -> "pullSessions"
               [] syncPc = "pullSessions" -> "pushProfile"
               [] syncPc = "pushProfile" ->
                    IF labels # << >> THEN "pushLabels"
                    ELSE IF sessions # << >> THEN "pushSessions"
                    ELSE "idle"
               [] syncPc = "pushLabels" ->
                    IF sessions # << >> THEN "pushSessions" ELSE "idle"
               [] syncPc = "pushSessions" -> "idle"
        /\ syncPc' # "idle" => rpc'.st = "sent"
        /\ <<ledgerVars, gardenVars, settingVars>>'
             = <<ledgerVars, gardenVars, settingVars>>]_vars


\* C31: a step that resumes a pass from one of its selects discards nothing
\* local: every key of the ledger (the clientId, or the id of a session
\* without one) and every label identifier held before the step is held
\* after it, whatever the select answered.
C31_PullKeepsLocalData ==
  [][ret'.op = "fullSync" /\ ret'.arg \in {2, 3, 4} =>
       /\ \A i \in 1..Len(sessions) : \E j \in 1..Len(sessions') :
            /\ SessionKey(sessions'[j]) = SessionKey(sessions[i])
            /\ sessions'[j].clientId = sessions[i].clientId
       /\ \A i \in 1..Len(labels) : \E j \in 1..Len(labels') :
            labels'[j].id = labels[i].id]_vars

\* The session select answered with a row the ledger did not hold, and the
\* ledger now holds that row next to a session of its own.
C31_Witness ==
  /\ ret.op = "fullSync" /\ ret.arg = 4 /\ ret.ok
  /\ \E i, j \in 1..Len(sessions) :
       /\ sessions[i].id \in {101, 102}
       /\ sessions[j].id \notin {101, 102}
       /\ \E r \in remoteSessions : r.client_id = SessionKey(sessions[j])
       /\ \A r \in remoteSessions : r.client_id # SessionKey(sessions[i])


\* C32: whenever sb.syncing is up it eventually goes down again, whether
\* the pass runs to its end or rejects on the way.
C32_PassReturnsToIdle == syncing ~> ~syncing

\* A pass rejected on an exception of the transport and sb.syncing is down.
C32_Witness ==
  /\ ret.op = "fullSync" /\ ret.arg = 9
  /\ ~syncing
  /\ syncPc = "idle"


\* C33: when the text of an imported file is not JSON, or is JSON that is
\* not an object, or is an object whose sessions member is not an array,
\* the import fails and leaves the state, the saved state, forcePushOnce and
\* the timer as they were.
C33_MalformedImportRejected ==
  [][/\ ret'.op = "importStateFromFile"
     /\ \/ fnIn'.kind # "json"
        \/ fnIn'.value.t # "object"
        \/ fnIn'.value.o.sessions.t # "array"
     => /\ ~ret'.ok
        /\ fnOut' = fnOut
        /\ forcePushOnce' = forcePushOnce
        /\ syncTimer' = syncTimer]_vars

\* Signed in, after a backup was restored, a file holding an object without
\* a sessions array was refused.
C33_Witness ==
  /\ ret.op = "importStateFromFile" /\ ~ret.ok
  /\ sbUser
  /\ fnIn.kind = "json"
  /\ fnIn.value.t = "object"
  /\ fnOut.fn = "import"
  /\ fnOut.state.sessions # JArr(<< >>)


\* C34: a step that resumes a pass from one of its selects leaves every
\* session of the ledger in the ledger, as it was; and when the pass of
\* someone signed in comes to its session upsert (after the label upsert,
\* or after the profile upsert when there are no labels) with a ledger that
\* is not empty, the upsert carries one row for each session the ledger
\* holds at that moment, those recorded since the pass started included.
C34_PushReadsLiveLedger ==
  [][/\ ret'.op = "fullSync" /\ ret'.arg \in {2, 3, 4}
          => \A i \in 1..Len(sessions) : \E j \in 1..Len(sessions') :
               sessions'[j] = sessions[i]
     /\ /\ ret'.op = "fullSync" /\ ret'.arg \in {5, 6}
        /\ sbUser
        /\ sessions # << >>
        /\ ret'.arg = 5 => labels = << >>
        => /\ syncPc' = "pushSessions"
           /\ rpc' = Sent(MapSeq(localSessionToRow, sessions))
           /\ sessions' = sessions]_vars

\* Someone signed in and, while the pass was in its pull phase, recorded a
\* session (the profile row pushed since holds its seconds, the timer it
\* armed is pending): the session upsert of that pass carries its row.
C34_Witness ==
  /\ opsLeft = MaxUserOps - 2
  /\ sbUser
  /\ syncTimer = 250
  /\ syncPc = "pushSessions"
  /\ rpc.st = "sent"
  /\ Len(sessions) = 1
  /\ rpc.body = << localSessionToRow(sessions[1]) >>
  /\ remoteProfile.exists
  /\ remoteProfile.island_xp_sec = sessions[1].durationSec
  /\ remoteSessions = {}


\* C35: where labels leave the local set by deleteLabel only and every
\* remote row was pushed from this set, no step of a pass puts into the
\* local set a label identifier the set does not hold: a deleted label does
\* not come back.
C35_DeletedLabelStaysDeleted ==
  [][ret'.op = "fullSync" =>
       \A j \in 1..Len(labels') : \E i \in 1..Len(labels) :
         labels'[j].id = labels[i].id]_vars


\* C36: where sessions leave the ledger by deleteSessionById only and
\* every remote row was pushed from this ledger, no step of a pass puts
\* into the ledger a session key the ledger does not hold: a deleted
\* session does not come back.
C36_DeletedSessionStaysDeleted ==
  [][ret'.op = "fullSync" =>
       \A j \in 1..Len(sessions') : \E i \in 1..Len(sessions) :
         SessionKey(sessions'[j]) = SessionKey(sessions[i])]_vars


\* C37: no step of a pass lowers islandXpSec or gardenGrowthSec: what a
\* recorded session added to the counters is still there when the pass it
\* scheduled has pulled the remote profile.
C37_ProgressSurvivesSync ==
  [][ret'.op = "fullSync" =>
       /\ islandXpSec' >= islandXpSec
       /\ gardenGrowthSec' >= gardenGrowthSec]_vars


\* C38: when a pass of one device, then a pass of the other, then a pass of
\* the first again have completed, the two ledgers and table sessions hold
\* the same clientIds, each once, and they are the clientIds of the
\* sessions recorded on either device.
C38_UnionConvergence ==
  /\ fnOut.fn = "devices"
  /\ fnOut.passes \in {<< "a", "b", "a" >>, << "b", "a", "b" >>}
  => /\ {fnOut.a[i].clientId : i \in 1..Len(fnOut.a)} = fnOut.recorded
     /\ {fnOut.b[i].clientId : i \in 1..Len(fnOut.b)} = fnOut.recorded
     /\ {r.client_id : r \in fnOut.remote} = fnOut.recorded
     /\ Len(fnOut.a) = Cardinality(fnOut.recorded)
     /\ Len(fnOut.b) = Cardinality(fnOut.recorded)
     /\ Cardinality(fnOut.remote) = Cardinality(fnOut.recorded)

\* Two sessions were recorded on each device and the three passes have run.
C38_Witness ==
  /\ fnOut.fn = "devices"
  /\ fnOut.passes = << "a", "b", "a" >>
  /\ fnOut.recorded = {1, 2, 11, 12}
  /\ Len(fnOut.b) = 4


\* C39: once a pass has completed without an error, a pass that follows
\* it, nothing having changed in between, changes neither the local
\* sections nor the rows of the tables.
C39_SecondPassChangesNothing ==
  [][/\ fnOut.fn = "quiet"
     /\ fnOut.passes >= 1
     /\ fnOut'.passes > fnOut.passes
     => /\ fnOut'.local = fnOut.local
        /\ fnOut'.remote = fnOut.remote]_vars


\* C40: when the session select of a pass has resumed without an error and
\* the merge is done, every session of the ledger has a clientId and no
\* two sessions of the ledger have the same one.
C40_MergedLedgerHasDistinctClientIds ==
  [][ret'.op = "fullSync" /\ ret'.arg = 4 /\ ret'.ok
     => /\ \A i \in 1..Len(sessions') : sessions'[i].clientId # 0
        /\ \A i, j \in 1..Len(sessions') :
             i # j => sessions'[i].clientId # sessions'[j].clientId]_vars

============================================================================
